---- MODULE Spec2Model ----
(***************************************************************************)
(* A model of the kanvas renderer (chip2n/kanvas-rs): the shadow pass of   *)
(* src/src/shadow.rs, the light set of src/src/light.rs, the debug UI of   *)
(* src/src/ui.rs and the frame loop of src/src/main.rs.                    *)
(*                                                                         *)
(* GPU API calls are modelled as records appended to a sequence in program *)
(* order; the GPU executes a submitted sequence with the semantics of      *)
(* wgpu: the queue's pending write_buffer calls take effect first, then    *)
(* the encoder's commands run in record order.                             *)
(*                                                                         *)
(* Two specifications share the module:                                    *)
(*   Spec       the library frame: ShadowPass, Lights, DebugUi             *)
(*   SpecState  the application frame of main.rs (struct State)            *)
(***************************************************************************)
EXTENDS Integers, Sequences, FiniteSets, TLC

(***************************************************************************)
(* Program constants                                                       *)
(***************************************************************************)
\* light.rs:7  pub const MAX_LIGHTS: usize = 2;
MAX_LIGHTS == 2
\* wgpu::BIND_BUFFER_ALIGNMENT (256 in wgpu 0.6), used at shadow.rs:94,358,359
BIND_BUFFER_ALIGNMENT == 256
\* the six cube faces: [ShadowMapTarget; 6] at shadow.rs:81
NUM_FACES == 6
\* SHADOW_SIZE, shadow.rs:12-16
SHADOW_WIDTH == 1024
SHADOW_HEIGHT == 1024

(***************************************************************************)
(* Bounds of the model                                                     *)
(***************************************************************************)
\* meshes of the scene that cast shadows / are drawn in the forward pass
NumMeshes == 2

Faces == 0 .. (NUM_FACES - 1)
LightSlots == 0 .. (MAX_LIGHTS - 1)
Meshes == 0 .. (NumMeshes - 1)

(***************************************************************************)
(* Vectors and the symbolic form of matrices                               *)
(***************************************************************************)
Vector3(x, y, z) == <<x, y, z>>
VAdd(a, b) == <<a[1] + b[1], a[2] + b[2], a[3] + b[3]>>
VNeg(a) == <<0 - a[1], 0 - a[2], 0 - a[3]>>
unit_x == Vector3(1, 0, 0)
unit_y == Vector3(0, 1, 0)
unit_z == Vector3(0, 0, 1)
ZeroVector3 == Vector3(0, 0, 0)

\* light_proj * Matrix4::look_at(eye, center, up): the product is kept as
\* its factors, the projection by name and the view by its arguments.
LookAtProj(proj, eye, center, up) ==
    [proj |-> proj, eye |-> eye, center |-> center, up |-> up]
\* the all-zero matrix of a buffer that was never written
ZeroMatrix4 ==
    [proj |-> "zero", eye |-> ZeroVector3, center |-> ZeroVector3, up |-> ZeroVector3]

\* shadow.rs:464-474 (LightType::Point): 90 degrees, 1024x1024, 0.1 .. 100.0
create_proj_mat == "perspective(1024x1024, 90deg, 0.1, 100.0)"

\* shadow.rs:383-462: the six face matrices, in index order
create_light_proj_cube_z_twice(light_pos) ==
    LET light_proj == create_proj_mat
    IN << LookAtProj(light_proj, light_pos, VAdd(light_pos, Vector3(1, 0, 0)), unit_y),
          LookAtProj(light_proj, light_pos, VAdd(light_pos, Vector3(-1, 0, 0)), unit_y),
          LookAtProj(light_proj, light_pos, VAdd(light_pos, Vector3(0, 1, 0)), unit_z),
          LookAtProj(light_proj, light_pos, VAdd(light_pos, Vector3(0, -1, 0)), VNeg(unit_z)),
          LookAtProj(light_proj, light_pos, VAdd(light_pos, Vector3(0, 0, -1)), unit_y),
          LookAtProj(light_proj, light_pos, VAdd(light_pos, Vector3(0, 0, -1)), unit_y) >>
create_light_proj_cube_up_y(light_pos) ==
    LET light_proj == create_proj_mat
    IN << LookAtProj(light_proj, light_pos, VAdd(light_pos, Vector3(1, 0, 0)), unit_y),
          LookAtProj(light_proj, light_pos, VAdd(light_pos, Vector3(-1, 0, 0)), unit_y),
          LookAtProj(light_proj, light_pos, VAdd(light_pos, Vector3(0, 1, 0)), unit_y),
          LookAtProj(light_proj, light_pos, VAdd(light_pos, Vector3(0, -1, 0)), unit_y),
          LookAtProj(light_proj, light_pos, VAdd(light_pos, Vector3(0, 0, -1)), unit_y),
          LookAtProj(light_proj, light_pos, VAdd(light_pos, Vector3(0, 0, 1)), unit_y) >>
create_light_proj_cube(light_pos) ==
    LET light_proj == create_proj_mat
    IN << LookAtProj(light_proj, light_pos, VAdd(light_pos, Vector3(1, 0, 0)), unit_y),
          LookAtProj(light_proj, light_pos, VAdd(light_pos, Vector3(-1, 0, 0)), unit_y),
          LookAtProj(light_proj, light_pos, VAdd(light_pos, Vector3(0, 1, 0)), unit_z),
          LookAtProj(light_proj, light_pos, VAdd(light_pos, Vector3(0, -1, 0)), VNeg(unit_z)),
          LookAtProj(light_proj, light_pos, VAdd(light_pos, Vector3(0, 0, -1)), unit_y),
          LookAtProj(light_proj, light_pos, VAdd(light_pos, Vector3(0, 0, 1)), unit_y) >>

(***************************************************************************)
(* ShadowUniforms and the packed uniform buffer                            *)
(***************************************************************************)
\* #[repr(C)] struct ShadowUniforms { light_proj: Matrix4, light_position: Vector3 }
\* Matrix4 = cgmath::Matrix4<f32> (16 floats), Vector3 = cgmath::Vector3<f32>
\* (3 floats); every field has alignment 4, so repr(C) adds no padding.
SizeOfF32 == 4
SizeOfMatrix4 == 16 * SizeOfF32
SizeOfVector3 == 3 * SizeOfF32
SizeOfShadowUniforms == SizeOfMatrix4 + SizeOfVector3

ShadowUniforms(light_proj, light_position) ==
    [light_proj |-> light_proj, light_position |-> light_position]
ZeroShadowUniforms == ShadowUniforms(ZeroMatrix4, ZeroVector3)

\* shadow.rs:93-94: the size of the shadow uniform buffer (ShadowPass::new)
uniforms_size_wrong == MAX_LIGHTS * BIND_BUFFER_ALIGNMENT
uniforms_size == MAX_LIGHTS * 6 * BIND_BUFFER_ALIGNMENT

\* shadow.rs:357-361
light_buffer_offset_swapped(light_index, face_index) ==
    LET light_offset == face_index * 6 * BIND_BUFFER_ALIGNMENT
        face_offset == light_index * BIND_BUFFER_ALIGNMENT
    IN light_offset + face_offset
light_buffer_offset_no_faces(light_index, face_index) ==
    LET light_offset == light_index * BIND_BUFFER_ALIGNMENT
        face_offset == face_index * BIND_BUFFER_ALIGNMENT
    IN light_offset + face_offset
light_buffer_offset(light_index, face_index) ==
    LET light_offset == light_index * 6 * BIND_BUFFER_ALIGNMENT
        face_offset == face_index * BIND_BUFFER_ALIGNMENT
    IN light_offset + face_offset

(***************************************************************************)
(* GPU API calls                                                           *)
(***************************************************************************)
\* resources are named by <<kind, index>>
ShadowTarget(f) == <<"shadow_target", f>>
ShadowTexture(i) == <<"shadow_cubemap", i>>
NoAttachment == <<"none", 0>>

LoadClear == "Clear"
LoadLoad == "Load"
\* far depth, the 1.0 of wgpu::LoadOp::Clear(1.0)
DEPTH_FAR == 1

\* a depth attachment with its depth_ops
DepthAttachment(view, load, clear_depth) ==
    [attachment |-> view, load |-> load, clear_depth |-> clear_depth, store |-> TRUE]
NoDepthAttachment == DepthAttachment(NoAttachment, LoadLoad, 0)
\* a color attachment with its ops
ColorAttachment(view, load, clear_color) ==
    [attachment |-> view, load |-> load, clear_color |-> clear_color, store |-> TRUE]

\* encoder.begin_render_pass(..); label names the code block that records it
BeginRenderPass(label, color_attachments, depth_stencil_attachment) ==
    [op |-> "begin_render_pass", label |-> label,
     color |-> color_attachments, depth |-> depth_stencil_attachment]
\* the RenderPass value is dropped
EndRenderPass(label) == [op |-> "end_render_pass", label |-> label]
SetPipeline(pipeline) == [op |-> "set_pipeline", pipeline |-> pipeline]
SetVertexBuffer(slot, buffer) == [op |-> "set_vertex_buffer", slot |-> slot, buffer |-> buffer]
SetIndexBuffer(buffer) == [op |-> "set_index_buffer", buffer |-> buffer]
SetBindGroup(index, group, offsets) ==
    [op |-> "set_bind_group", index |-> index, group |-> group, offsets |-> offsets]
DrawIndexed(indices, base_vertex, instances) ==
    [op |-> "draw_indexed", indices |-> indices, base_vertex |-> base_vertex,
     instances |-> instances]
CopyTextureToTexture(src, src_origin, dst, dst_origin, extent) ==
    [op |-> "copy_texture_to_texture", src |-> src, src_origin |-> src_origin,
     dst |-> dst, dst_origin |-> dst_origin, extent |-> extent]
CopyBufferToBuffer(src, src_offset, dst, dst_offset, size) ==
    [op |-> "copy_buffer_to_buffer", src |-> src, src_offset |-> src_offset,
     dst |-> dst, dst_offset |-> dst_offset, size |-> size]
CopyTextureToBuffer(src, dst) ==
    [op |-> "copy_texture_to_buffer", src |-> src, dst |-> dst]
\* queue.write_buffer(buffer, offset, data); size is the byte length of data
WriteBuffer(buffer, offset, data, size) ==
    [op |-> "write_buffer", buffer |-> buffer, offset |-> offset, data |-> data,
     size |-> size]
\* queue.submit(..)
QueueSubmit == [op |-> "submit"]

Origin3d(x, y, z) == [x |-> x, y |-> y, z |-> z]
Extent3d(width, height, depth) == [width |-> width, height |-> height, depth |-> depth]
Range(start, end) == [start |-> start, end |-> end]

(***************************************************************************)
(* ShadowPass (shadow.rs)                                                  *)
(***************************************************************************)
\* shadow.rs:247-271
copy_to_cubemap_layer0(calls, cubemap) ==
    calls \o [k \in 1 .. NUM_FACES |->
                CopyTextureToTexture(ShadowTarget(k - 1), Origin3d(0, 0, 0),
                                     cubemap, Origin3d(0, 0, 0),
                                     Extent3d(1024, 1024, 1))]
copy_to_cubemap_reversed(calls, cubemap) ==
    calls \o [k \in 1 .. NUM_FACES |->
                CopyTextureToTexture(ShadowTarget(NUM_FACES - k), Origin3d(0, 0, 0),
                                     cubemap, Origin3d(0, 0, k - 1),
                                     Extent3d(1024, 1024, 1))]
copy_to_cubemap(calls, cubemap) ==
    calls \o [k \in 1 .. NUM_FACES |->
                CopyTextureToTexture(ShadowTarget(k - 1), Origin3d(0, 0, 0),
                                     cubemap, Origin3d(0, 0, k - 1),
                                     Extent3d(1024, 1024, 1))]

\* shadow.rs:30-75 (ShadowCubemap::new): the texture and the descriptor of
\* the view the forward pass samples it through; array_layer_count is
\* NonZeroU32::new(1)
ShadowCubemapNew ==
    [texture |-> [size |-> Extent3d(1024, 1024, 6), dimension |-> "D2"],
     texture_view |-> [dimension |-> "Cube", base_array_layer |-> 0,
                       array_layer_count |-> <<1>>]]
\* the array layers a view of a texture spans: array_layer_count layers from
\* base_array_layer on, the rest of the texture's layers when it is None
ViewLayers(cubemap) ==
    LET base == cubemap.texture_view.base_array_layer
        count == cubemap.texture_view.array_layer_count
    IN IF count = <<>> THEN base .. cubemap.texture.size.depth - 1
       ELSE base .. base + count[1] - 1

\* shadow.rs:273-309: a clear pass, dropped at once, then the load pass that
\* the returned ShadowPassRunner holds
begin_clear_twice(calls, face_index) ==
    calls \o << BeginRenderPass("shadow clear", <<>>,
                    DepthAttachment(ShadowTarget(face_index), LoadClear, DEPTH_FAR)),
                EndRenderPass("shadow clear"),
                BeginRenderPass("shadow", <<>>,
                    DepthAttachment(ShadowTarget(face_index), LoadClear, DEPTH_FAR)),
                SetPipeline("shadow") >>
begin(calls, face_index) ==
    calls \o << BeginRenderPass("shadow clear", <<>>,
                    DepthAttachment(ShadowTarget(face_index), LoadClear, DEPTH_FAR)),
                EndRenderPass("shadow clear"),
                BeginRenderPass("shadow", <<>>,
                    DepthAttachment(ShadowTarget(face_index), LoadLoad, 0)),
                SetPipeline("shadow") >>

\* shadow.rs:311-325
update_light_five_faces(calls, light_index, light) ==
    LET projections == create_light_proj_cube(light.position)
    IN calls \o [k \in 1 .. Len(projections) - 1 |->
                    LET uniforms == ShadowUniforms(projections[k], light.position)
                        buffer_offset == light_buffer_offset(light_index, k - 1)
                    IN WriteBuffer("shadow_uniforms", buffer_offset, uniforms,
                                   SizeOfShadowUniforms)]
update_light_first_face_matrix(calls, light_index, light) ==
    LET projections == create_light_proj_cube(light.position)
    IN calls \o [k \in 1 .. Len(projections) |->
                    LET uniforms == ShadowUniforms(projections[1], light.position)
                        buffer_offset == light_buffer_offset(light_index, k - 1)
                    IN WriteBuffer("shadow_uniforms", buffer_offset, uniforms,
                                   SizeOfShadowUniforms)]
update_light(calls, light_index, light) ==
    LET projections == create_light_proj_cube(light.position)
    IN calls \o [k \in 1 .. Len(projections) |->
                    LET uniforms == ShadowUniforms(projections[k], light.position)
                        buffer_offset == light_buffer_offset(light_index, k - 1)
                    IN WriteBuffer("shadow_uniforms", buffer_offset, uniforms,
                                   SizeOfShadowUniforms)]

\* shadow.rs:371-381
from_mesh(mesh, instances_bind_group) ==
    [vertex_buffer |-> <<"vertex_buffer", mesh>>,
     index_buffer |-> <<"index_buffer", mesh>>,
     indices |-> Range(0, <<"num_elements", mesh>>),
     instances_bind_group |-> instances_bind_group,
     instances |-> Range(0, 1)]

\* shadow.rs:334-355 (ShadowPassRunner::render)
render_swapped(calls, data, face_index, light_index) ==
    LET buffer_offset == light_buffer_offset(face_index, light_index)
    IN calls \o << SetVertexBuffer(0, data.vertex_buffer),
                   SetIndexBuffer(data.index_buffer),
                   SetBindGroup(0, <<"shadow_uniforms", 0>>, <<buffer_offset>>),
                   SetBindGroup(1, data.instances_bind_group, <<>>),
                   DrawIndexed(data.indices, 0, data.instances) >>
render(calls, data, face_index, light_index) ==
    LET buffer_offset == light_buffer_offset(light_index, face_index)
    IN calls \o << SetVertexBuffer(0, data.vertex_buffer),
                   SetIndexBuffer(data.index_buffer),
                   SetBindGroup(0, <<"shadow_uniforms", 0>>, <<buffer_offset>>),
                   SetBindGroup(1, data.instances_bind_group, <<>>),
                   DrawIndexed(data.indices, 0, data.instances) >>

(***************************************************************************)
(* The GPU: what a submitted sequence of calls does                        *)
(***************************************************************************)
\* a depth image: the value it was last cleared to (0: as created) and the
\* draws rasterized into it since
Image(depth, draws) == [depth |-> depth, draws |-> draws]
BlankImage == Image(0, {})

\* the record a shader reads through a dynamic-offset binding of
\* size_of::<ShadowUniforms>() bytes at `offset`: what write_buffer put
\* exactly there, zero where nothing was written
ReadUniforms(uniforms, offset) ==
    IF \E e \in uniforms : e.offset = offset /\ e.size >= SizeOfShadowUniforms
    THEN (CHOOSE e \in uniforms : e.offset = offset /\ e.size >= SizeOfShadowUniforms).data
    ELSE ZeroShadowUniforms

Overlaps(e, offset, size) == e.offset < offset + size /\ offset < e.offset + e.size

\* queue.write_buffer on the GPU timeline; a write past the end of the
\* buffer is a validation error
ApplyWrite(g, w) ==
    IF w.buffer = "shadow_uniforms"
    THEN IF w.offset + w.size > uniforms_size
         THEN [g EXCEPT !.error = TRUE]
         ELSE [g EXCEPT !.uniforms =
                 {e \in g.uniforms : ~Overlaps(e, w.offset, w.size)}
                 \cup {[offset |-> w.offset, size |-> w.size, data |-> w.data]}]
    ELSE IF w.buffer = "light_config"
    THEN [g EXCEPT !.config = w.data]
    ELSE g

ExecBeginRenderPass(g, c) ==
    LET d == c.depth
        cleared == IF d.attachment[1] = "shadow_target" /\ d.load = LoadClear
                   THEN [g.targets EXCEPT ![d.attachment[2]] = Image(d.clear_depth, {})]
                   ELSE g.targets
    IN [g EXCEPT !.targets = cleared, !.pass = d.attachment,
                 !.pipeline = "none", !.offset = 0, !.vertex_buffer = <<"none", 0>>]

ExecDrawIndexed(g, c) ==
    IF g.pass[1] = "shadow_target" /\ g.pipeline = "shadow"
    THEN LET f == g.pass[2]
             drawn == [uniforms |-> ReadUniforms(g.uniforms, g.offset),
                       vertex_buffer |-> g.vertex_buffer]
         IN [g EXCEPT !.targets[f].draws = @ \cup {drawn}]
    ELSE g

ExecCopyTextureToTexture(g, c) ==
    IF /\ c.src[1] = "shadow_target"
       /\ c.dst[1] = "shadow_cubemap"
       /\ c.dst_origin.z \in Faces
    THEN [g EXCEPT !.cubemaps[c.dst[2]][c.dst_origin.z] = g.targets[c.src[2]]]
    ELSE g

ExecCommand(g, c) ==
    CASE c.op = "begin_render_pass" -> ExecBeginRenderPass(g, c)
      [] c.op = "end_render_pass" -> [g EXCEPT !.pass = NoAttachment]
      [] c.op = "set_pipeline" -> [g EXCEPT !.pipeline = c.pipeline]
      [] c.op = "set_vertex_buffer" -> [g EXCEPT !.vertex_buffer = c.buffer]
      [] c.op = "set_bind_group" ->
            IF c.index = 0 /\ Len(c.offsets) = 1
            THEN [g EXCEPT !.offset = c.offsets[1]]
            ELSE g
      [] c.op = "draw_indexed" -> ExecDrawIndexed(g, c)
      [] c.op = "copy_texture_to_texture" -> ExecCopyTextureToTexture(g, c)
      [] OTHER -> g

\* the one member of a singleton set
TheOne(S) == CHOOSE r \in S : TRUE

\* the calls cs[lo..hi] folded over the GPU state, split in halves to keep
\* the evaluation shallow; the state after the left half is bound through a
\* singleton set so that it is computed once.  The writes among the calls ...
RECURSIVE ApplyWrites(_, _, _, _)
ApplyWrites(g, cs, lo, hi) ==
    IF lo > hi THEN g
    ELSE IF lo = hi
    THEN (IF cs[lo].op = "write_buffer" THEN ApplyWrite(g, cs[lo]) ELSE g)
    ELSE TheOne({ IF left.error THEN left
                  ELSE ApplyWrites(left, cs, ((lo + hi) \div 2) + 1, hi) :
                  left \in {ApplyWrites(g, cs, lo, (lo + hi) \div 2)} })

\* ... and the encoder's commands among them
RECURSIVE ExecCommands(_, _, _, _)
ExecCommands(g, cs, lo, hi) ==
    IF lo > hi THEN g
    ELSE IF lo = hi
    THEN (IF cs[lo].op = "write_buffer" THEN g ELSE ExecCommand(g, cs[lo]))
    ELSE TheOne({ IF left.error THEN left
                  ELSE ExecCommands(left, cs, ((lo + hi) \div 2) + 1, hi) :
                  left \in {ExecCommands(g, cs, lo, (lo + hi) \div 2)} })

\* queue.submit: the pending writes, then the command buffer in record order;
\* a validation error stops the submission
GpuSubmit(g, cs) ==
    TheOne({ IF written.error THEN written
             ELSE ExecCommands(written, cs, 1, Len(cs)) :
             written \in {ApplyWrites(g, cs, 1, Len(cs))} })

GpuInit ==
    [uniforms |-> {},
     config |-> [shadows_enabled |-> TRUE],
     targets |-> [f \in Faces |-> BlankImage],
     cubemaps |-> [i \in LightSlots |-> [f \in Faces |-> BlankImage]],
     pass |-> NoAttachment,
     pipeline |-> "none",
     offset |-> 0,
     vertex_buffer |-> <<"none", 0>>,
     error |-> FALSE]

(***************************************************************************)
(* State                                                                   *)
(***************************************************************************)
VARIABLES
    lights,                 \* Lights.lights: slot -> light or NoLight
    config_shadows_enabled, \* LightConfig.shadows_enabled
    ui_shadows_enabled,     \* DebugUi.shadows_enabled
    pc,                     \* where the frame is
    light_index,            \* the light the frame is at
    face_index,             \* the cube face the frame is at
    mesh_index,             \* the mesh the frame is at
    calls,                  \* the frame's queue and encoder calls, in program order
    submits,                \* queue.submit calls of the frame
    gpu                     \* GPU memory: buffers, face targets, cubemaps

\* struct State of main.rs and its event loop
VARIABLES
    state_size,            \* State.size
    sc_desc,         \* State.sc_desc: width and height
    depth_texture,   \* State.depth_texture: its extent
    projection,      \* State.projection: the extent it was sized for
    state_light,           \* State.light
    uniform_buffer,  \* GPU contents of State.uniform_buffer
    light_buffer,    \* GPU contents of State.light_buffer
    is_active,       \* State.camera_controller.is_active
    cursor_visible,  \* the window's cursor is shown
    cursor_grab,     \* the window's cursor is grabbed
    control_flow,    \* the event loop's ControlFlow
    panicked,        \* the thread panicked
    submissions      \* the command streams submitted by the last redraw, in order

stateVars == <<state_size, sc_desc, depth_texture, projection, state_light, uniform_buffer,
               light_buffer, is_active, cursor_visible, cursor_grab, control_flow,
               panicked, submissions>>

kanvasVars == <<lights, config_shadows_enabled, ui_shadows_enabled, pc, light_index,
                face_index, mesh_index, calls, submits, gpu>>

\* the units exercised on their own
VARIABLES
    added,           \* LightSet: what each add_light call returned, in call order
    lights_raw,      \* the LightsRaw the last to_raw returned
    lights_buffer,   \* GPU contents of Lights.buffer
    light_pos,       \* the argument of the last create_light_proj_cube call
    cube_projections,    \* what that call returned
    next_id,         \* Billboards.next_id
    billboards,      \* Billboards.billboards: id -> Billboard
    billboard_instances,     \* Billboards.instances: material -> BillboardData
    view_mat,        \* the camera's view matrix (camera.calc_matrix())
    instance_buffers, \* GPU contents of the instance buffers: buffer -> offset -> data
    pass_calls,      \* what Billboards::render recorded into the render pass
    inserted,        \* the ids Billboards::insert returned, in call order
    model_drawn,     \* the model given to draw_model_instanced
    range_drawn,     \* the instance range given to draw_model_instanced
    draw_calls       \* what draw_model_instanced recorded into the render pass

lightVars == <<added, lights_raw, lights_buffer>>
cubeVars == <<light_pos, cube_projections>>
billboardVars == <<next_id, billboards, billboard_instances, view_mat, instance_buffers, pass_calls, inserted>>
drawVars == <<model_drawn, range_drawn, draw_calls>>
VARIABLES
    save_pc,           \* where save_texture is: idle, created, recorded, spawned, returned
    save_args,         \* the width, height and texture given to save_texture
    save_encoder,      \* what save_texture's command encoder has recorded
    save_queue,        \* the command buffers save_texture has submitted to the queue
    screenshot_buffer, \* the readback buffer: size, contents and mapping state
    thread_pc,         \* where the spawned thread is: none, spawned, waiting, read, saved
    thread_pixels,     \* what the thread read from the mapped range
    image_png          \* what the thread saved as image.png
saveVars == <<save_pc, save_args, save_encoder, save_queue, screenshot_buffer, thread_pc,
              thread_pixels, image_png>>
unitVars == <<lightVars, cubeVars, drawVars, billboardVars, saveVars>>

(***************************************************************************)
(* Lights (light.rs)                                                       *)
(***************************************************************************)
NoLight == [occupied |-> FALSE, position |-> ZeroVector3, color |-> ZeroVector3,
            light_type |-> "Point"]
\* light.rs:142-162 (Light::new)
Light(position, color) ==
    [occupied |-> TRUE, position |-> position, color |-> color, light_type |-> "Point"]

\* light.rs:26-49: the two lights Lights::new creates
LightsNew ==
    [i \in LightSlots |->
        IF i = 0 THEN Light(Vector3(-15, 12, 8), Vector3(1, 1, 1))
                 ELSE Light(Vector3(10, 10, 0), Vector3(1, 1, 1))]

\* positions a light of slot i is moved to
LightPositions(i) ==
    IF i = 0 THEN {Vector3(-15, 12, 8), Vector3(-14, 12, 8)}
             ELSE {Vector3(10, 10, 0), Vector3(10, 10, 1)}

\* the occupied slots above slot i, and the first of them
OccupiedAfter(ls, i) == {j \in LightSlots : j > i /\ ls[j].occupied}
NextOccupied(ls, i) == CHOOSE j \in OccupiedAfter(ls, i) :
                           \A k \in OccupiedAfter(ls, i) : j <= k

\* light.rs:202-204 (LightConfig::upload) with to_raw, light.rs:218-223
upload(cs, shadows_enabled) ==
    cs \o << WriteBuffer("light_config", 0, [shadows_enabled |-> shadows_enabled], 4) >>

(***************************************************************************)
(* The scene and the forward pass                                          *)
(***************************************************************************)
\* the model drawn each frame: its meshes, each with its material index
Scene == [meshes |-> [k \in 1 .. NumMeshes |-> [id |-> k - 1, material |-> k - 1]]]

draw_mesh_instanced_light_after_draw(cs, mesh, material, instances, uniforms, instances_bind_group, light) ==
    cs \o << SetVertexBuffer(0, <<"vertex_buffer", mesh.id>>),
             SetIndexBuffer(<<"index_buffer", mesh.id>>),
             SetBindGroup(0, material, <<>>),
             SetBindGroup(1, uniforms, <<>>),
             SetBindGroup(2, instances_bind_group, <<>>),
             DrawIndexed(Range(0, <<"num_elements", mesh.id>>), 0, instances),
             SetBindGroup(3, light, <<>>) >>
\* model.rs:70-86
draw_mesh_instanced(cs, mesh, material, instances, uniforms, instances_bind_group, light) ==
    cs \o << SetVertexBuffer(0, <<"vertex_buffer", mesh.id>>),
             SetIndexBuffer(<<"index_buffer", mesh.id>>),
             SetBindGroup(0, material, <<>>),
             SetBindGroup(1, uniforms, <<>>),
             SetBindGroup(2, instances_bind_group, <<>>),
             SetBindGroup(3, light, <<>>),
             DrawIndexed(Range(0, <<"num_elements", mesh.id>>), 0, instances) >>

\* model.rs:98-117: the loop over model.meshes, from mesh k on
RECURSIVE draw_model_from(_, _, _, _, _, _, _)
draw_model_from(cs, model, k, instances, uniforms, instances_bind_group, light) ==
    IF k > Len(model.meshes) THEN cs
    ELSE LET mesh == model.meshes[k]
             material == <<"material", mesh.material>>
         IN draw_model_from(
                draw_mesh_instanced(cs, mesh, material, instances, uniforms,
                                    instances_bind_group, light),
                model, k + 1, instances, uniforms, instances_bind_group, light)
draw_model_instanced(cs, model, instances, uniforms, instances_bind_group, light) ==
    draw_model_from(cs, model, 1, instances, uniforms, instances_bind_group, light)

BACKGROUND == "background"
\* the forward pass of the library frame: one color+depth pass, color
\* cleared to the background and depth to far, then the scene
forward_pass(cs) ==
    LET begun == cs \o << BeginRenderPass("forward",
                              << ColorAttachment(<<"frame", 0>>, LoadClear, BACKGROUND) >>,
                              DepthAttachment(<<"depth_texture", 0>>, LoadClear, DEPTH_FAR)),
                          SetPipeline("forward") >>
        drawn == draw_model_instanced(begun, Scene, Range(0, 1), <<"uniforms", 0>>,
                                      <<"instances", 0>>, <<"lights", 0>>)
    IN drawn \o << EndRenderPass("forward") >>

(***************************************************************************)
(* DebugUi (ui.rs) and DebugPass (debug.rs)                                *)
(***************************************************************************)
\* debug.rs:197-223 (DebugPass::render)
debug_pass_render(cs, frame, globals_bind_group) ==
    cs \o << BeginRenderPass("debug",
                 << ColorAttachment(frame, LoadLoad, BACKGROUND) >>, NoDepthAttachment),
             SetPipeline("debug"),
             SetVertexBuffer(0, <<"debug_vertex_buffer", 0>>),
             SetIndexBuffer(<<"debug_index_buffer", 0>>),
             SetBindGroup(0, <<"debug", 0>>, <<>>),
             SetBindGroup(1, globals_bind_group, <<>>),
             DrawIndexed(Range(0, <<"PLANE_INDICES", 6>>), 0, Range(0, 1)),
             EndRenderPass("debug") >>

\* ui.rs:145-155: each shadow cubemap layer rendered into its imgui texture
RECURSIVE ui_shadow_textures(_, _)
ui_shadow_textures(cs, i) ==
    IF i >= 6 * MAX_LIGHTS THEN cs
    ELSE ui_shadow_textures(
             debug_pass_render(cs, <<"imgui_texture", i>>, <<"shadow_layer", i>>), i + 1)

\* ui.rs:137-241 (DebugUi::render): the commands it records
ui_render(cs) ==
    ui_shadow_textures(cs, 0)
    \o << BeginRenderPass("ui",
              << ColorAttachment(<<"frame", 0>>, LoadLoad, BACKGROUND) >>, NoDepthAttachment),
          [op |-> "imgui_render"],
          EndRenderPass("ui") >>

(***************************************************************************)
(* The library frame: uniform writes, shadow faces, cubemap copies,        *)
(* forward pass, UI overlay, submit                                        *)
(***************************************************************************)
KanvasInit ==
    /\ lights = LightsNew
    /\ config_shadows_enabled = TRUE      \* light.rs:186
    /\ ui_shadows_enabled = TRUE          \* ui.rs:117
    /\ pc = "idle"
    /\ light_index = 0
    /\ face_index = 0
    /\ mesh_index = 0
    /\ calls = <<>>
    /\ submits = 0
    /\ gpu = GpuInit

\* update_position: a light is moved at the start of the frame, before its
\* transforms are recomputed
MoveLight(i, p) ==
    /\ pc = "move"
    /\ lights[i].occupied
    /\ lights[i].position # p
    /\ lights' = [lights EXCEPT ![i].position = p]
    /\ UNCHANGED stateVars
    /\ UNCHANGED unitVars
    /\ UNCHANGED <<config_shadows_enabled, ui_shadows_enabled, pc, light_index,
                   face_index, mesh_index, calls, submits, gpu>>

\* the frame starts: a fresh encoder; the UI's flag becomes the light
\* configuration and is uploaded
BeginFrame ==
    /\ pc = "idle"
    /\ config_shadows_enabled' = ui_shadows_enabled
    /\ calls' = upload(<<>>, ui_shadows_enabled)
    /\ submits' = 0
    /\ light_index' = NextOccupied(lights, -1)
    /\ face_index' = 0
    /\ mesh_index' = 0
    /\ pc' = "move"
    /\ UNCHANGED stateVars
    /\ UNCHANGED unitVars
    /\ UNCHANGED <<lights, ui_shadows_enabled, gpu>>

\* step 1: the six face transforms of one occupied light are written
UpdateLight_shadows_always ==
    /\ pc \in {"move", "update"}
    /\ calls' = update_light(calls, light_index, lights[light_index])
    /\ IF OccupiedAfter(lights, light_index) # {}
       THEN /\ light_index' = NextOccupied(lights, light_index)
            /\ pc' = "update"
       ELSE /\ light_index' = NextOccupied(lights, -1)
            /\ pc' = "begin"
    /\ UNCHANGED stateVars
    /\ UNCHANGED unitVars
    /\ UNCHANGED <<lights, config_shadows_enabled, ui_shadows_enabled, face_index,
                   mesh_index, submits, gpu>>
UpdateLight ==
    /\ pc \in {"move", "update"}
    /\ calls' = update_light(calls, light_index, lights[light_index])
    /\ IF OccupiedAfter(lights, light_index) # {}
       THEN /\ light_index' = NextOccupied(lights, light_index)
            /\ pc' = "update"
       ELSE /\ light_index' = NextOccupied(lights, -1)
            /\ pc' = IF config_shadows_enabled THEN "begin" ELSE "forward"
    /\ UNCHANGED stateVars
    /\ UNCHANGED unitVars
    /\ UNCHANGED <<lights, config_shadows_enabled, ui_shadows_enabled, face_index,
                   mesh_index, submits, gpu>>

\* step 2a: the depth pass of one face of one light is begun
BeginFace ==
    /\ pc = "begin"
    /\ calls' = begin(calls, face_index)
    /\ mesh_index' = 0
    /\ pc' = "draw"
    /\ UNCHANGED stateVars
    /\ UNCHANGED unitVars
    /\ UNCHANGED <<lights, config_shadows_enabled, ui_shadows_enabled, light_index,
                   face_index, submits, gpu>>

\* step 2b, 2c: one mesh is drawn through the runner
DrawMesh ==
    /\ pc = "draw"
    /\ mesh_index < NumMeshes
    /\ calls' = render(calls, from_mesh(mesh_index, <<"instances", 0>>),
                       face_index, light_index)
    /\ mesh_index' = mesh_index + 1
    /\ UNCHANGED stateVars
    /\ UNCHANGED unitVars
    /\ UNCHANGED <<lights, config_shadows_enabled, ui_shadows_enabled, pc, light_index,
                   face_index, submits, gpu>>

\* the runner is dropped, which ends the face's pass
EndFace ==
    /\ pc = "draw"
    /\ mesh_index = NumMeshes
    /\ calls' = calls \o << EndRenderPass("shadow") >>
    /\ IF face_index + 1 < NUM_FACES
       THEN /\ face_index' = face_index + 1
            /\ pc' = "begin"
       ELSE /\ face_index' = 0
            /\ pc' = "copy"
    /\ UNCHANGED stateVars
    /\ UNCHANGED unitVars
    /\ UNCHANGED <<lights, config_shadows_enabled, ui_shadows_enabled, light_index,
                   mesh_index, submits, gpu>>

\* step 3: the six face targets are copied into the light's cubemap
CopyCubemap ==
    /\ pc = "copy"
    /\ calls' = copy_to_cubemap(calls, ShadowTexture(light_index))
    /\ IF OccupiedAfter(lights, light_index) # {}
       THEN /\ light_index' = NextOccupied(lights, light_index)
            /\ pc' = "begin"
       ELSE /\ light_index' = 0
            /\ pc' = "forward"
    /\ UNCHANGED stateVars
    /\ UNCHANGED unitVars
    /\ UNCHANGED <<lights, config_shadows_enabled, ui_shadows_enabled, face_index,
                   mesh_index, submits, gpu>>

\* step 4: the forward pass
ForwardPass ==
    /\ pc = "forward"
    /\ calls' = forward_pass(calls)
    /\ pc' = "ui"
    /\ UNCHANGED stateVars
    /\ UNCHANGED unitVars
    /\ UNCHANGED <<lights, config_shadows_enabled, ui_shadows_enabled, light_index,
                   face_index, mesh_index, submits, gpu>>

\* the UI overlay; its checkbox sets DebugUi.shadows_enabled (ui.rs:188-218)
UiRender(checkbox) ==
    /\ pc = "ui"
    /\ calls' = ui_render(calls)
    /\ ui_shadows_enabled' = checkbox
    /\ pc' = "submit"
    /\ UNCHANGED stateVars
    /\ UNCHANGED unitVars
    /\ UNCHANGED <<lights, config_shadows_enabled, light_index, face_index, mesh_index,
                   submits, gpu>>

\* the frame's one submission
Submit ==
    /\ pc = "submit"
    /\ calls' = calls \o << QueueSubmit >>
    /\ submits' = submits + 1
    /\ gpu' = GpuSubmit(gpu, calls)
    /\ pc' = "idle"
    /\ UNCHANGED stateVars
    /\ UNCHANGED unitVars
    /\ UNCHANGED <<lights, config_shadows_enabled, ui_shadows_enabled, light_index,
                   face_index, mesh_index>>

KanvasNext ==
    \/ BeginFrame
    \/ \E i \in LightSlots : \E p \in LightPositions(i) : MoveLight(i, p)
    \/ UpdateLight
    \/ BeginFace
    \/ DrawMesh
    \/ EndFace
    \/ CopyCubemap
    \/ ForwardPass
    \/ \E checkbox \in BOOLEAN : UiRender(checkbox)
    \/ Submit

(***************************************************************************)
(* The application of main.rs: struct State and the event loop             *)
(***************************************************************************)
\* window sizes the window system reports
Sizes == {<<800, 600>>, <<1024, 768>>, <<640, 480>>}

\* update() rotates the light about the y axis by 60 degrees per second;
\* dt is taken in steps of 1.5 s, a quarter turn each: (x, y, z) -> (z, y, -x)
RotateQuarterY(v) == <<v[3], v[2], 0 - v[1]>>
RECURSIVE RotateY(_, _)
RotateY(v, quarter_turns) ==
    IF quarter_turns = 0 THEN v ELSE RotateY(RotateQuarterY(v), quarter_turns - 1)
\* the quarter turns one dt makes
MaxQuarterTurns == 2

\* main.rs:292: the light, positions in halves of a unit: (1.5, 4.5, 1.5)
StateLightNew == [position |-> Vector3(3, 9, 3), color |-> Vector3(1, 1, 1)]

\* uniform.rs:17-19 with the camera2 projection: the view-projection matrix,
\* kept as the camera and the extent of the projection
update_view_proj(proj) == [camera |-> "camera", projection |-> proj]

FRAME == <<"frame", 0>>
TEST_MATERIAL_VIEW == <<"test_material.diffuse_texture", 0>>
DEPTH_TEXTURE_VIEW == <<"depth_texture", 0>>
\* the clear colour (0.1, 0.2, 0.3, 1.0) of main.rs:649-654
CLEAR_COLOR == "rgba(0.1, 0.2, 0.3, 1.0)"

\* model.rs:119-138: the loop over model.meshes, from mesh k on
RECURSIVE draw_with_material_from(_, _, _, _, _, _, _, _)
draw_with_material_from(cs, model, k, material, instances, uniforms, instances_bind_group, light_bind_group) ==
    IF k > Len(model.meshes) THEN cs
    ELSE draw_with_material_from(
             draw_mesh_instanced(cs, model.meshes[k], material, instances, uniforms,
                                 instances_bind_group, light_bind_group),
             model, k + 1, material, instances, uniforms, instances_bind_group,
             light_bind_group)
draw_model_instanced_with_material(cs, model, material, instances, uniforms, instances_bind_group, light_bind_group) ==
    draw_with_material_from(cs, model, 1, material, instances, uniforms,
                            instances_bind_group, light_bind_group)

\* res/models/plane.obj: one mesh
PlaneModel == [meshes |-> << [id |-> "plane", material |-> 0] >>]

\* main.rs:642-674: the screen and the test material are cleared
clear_passes ==
    << BeginRenderPass("clear the screen",
           << ColorAttachment(FRAME, LoadClear, CLEAR_COLOR) >>, NoDepthAttachment),
       EndRenderPass("clear the screen"),
       BeginRenderPass("clear the test material",
           << ColorAttachment(TEST_MATERIAL_VIEW, LoadClear, CLEAR_COLOR) >>,
           NoDepthAttachment),
       EndRenderPass("clear the test material") >>

\* main.rs:676-742: the shadow pass
state_shadow_pass(cs) ==
    LET begun == cs \o << BeginRenderPass("shadow", <<>>,
                              DepthAttachment(TEST_MATERIAL_VIEW, LoadClear, DEPTH_FAR)),
                          SetPipeline("render_pipeline2") >>
        drawn == draw_model_instanced(begun, Scene, Range(0, 1), <<"globals", 0>>,
                                      <<"instances", 0>>, <<"light", 0>>)
    IN drawn \o << EndRenderPass("shadow") >>

state_forward_pass_keeps_depth(cs) ==
    LET begun == cs \o << BeginRenderPass("forward",
                              << ColorAttachment(FRAME, LoadLoad, CLEAR_COLOR) >>,
                              DepthAttachment(DEPTH_TEXTURE_VIEW, LoadLoad, DEPTH_FAR)),
                          SetPipeline("render_pipeline") >>
        drawn == draw_model_instanced(begun, Scene, Range(0, 1), <<"globals", 0>>,
                                      <<"instances", 0>>, <<"light", 0>>)
    IN drawn \o << SetPipeline("light_render_pipeline"),
                   [op |-> "draw_light_model"],
                   EndRenderPass("forward") >>
\* main.rs:744-789: the forward pass
state_forward_pass(cs) ==
    LET begun == cs \o << BeginRenderPass("forward",
                              << ColorAttachment(FRAME, LoadLoad, CLEAR_COLOR) >>,
                              DepthAttachment(DEPTH_TEXTURE_VIEW, LoadClear, DEPTH_FAR)),
                          SetPipeline("render_pipeline") >>
        drawn == draw_model_instanced(begun, Scene, Range(0, 1), <<"globals", 0>>,
                                      <<"instances", 0>>, <<"light", 0>>)
    IN drawn \o << SetPipeline("light_render_pipeline"),
                   [op |-> "draw_light_model"],
                   EndRenderPass("forward") >>

\* main.rs:791-821: the debug depth pass
state_debug_depth_pass(cs) ==
    LET begun == cs \o << BeginRenderPass("debug depth",
                              << ColorAttachment(FRAME, LoadLoad, CLEAR_COLOR) >>,
                              NoDepthAttachment),
                          SetPipeline("render_pipeline_debug_depth") >>
        drawn == draw_model_instanced_with_material(begun, PlaneModel,
                     <<"test_material", 0>>, Range(0, 1), <<"globals", 0>>,
                     <<"plane_instances", 0>>, <<"light", 0>>)
    IN drawn \o << EndRenderPass("debug depth") >>

\* main.rs:638-822
render_forward_first ==
    state_debug_depth_pass(state_shadow_pass(state_forward_pass(clear_passes)))
render_with_encoder ==
    state_debug_depth_pass(state_forward_pass(state_shadow_pass(clear_passes)))

\* main.rs:572-611: the encoder update() records and submits
update_encoder(uniforms, new_light) ==
    << CopyBufferToBuffer([staging |-> uniforms], 0, <<"uniform_buffer", 0>>, 0,
                          <<"size_of", "Uniforms">>),
       CopyBufferToBuffer([staging |-> new_light], 0, <<"light_buffer", 0>>, 0,
                          <<"size_of", "Light">>) >>

\* main.rs:621-632: the encoder render() records and submits
render_encoder ==
    render_with_encoder
    \o << CopyTextureToBuffer(TEST_MATERIAL_VIEW, <<"new_buffer", 0>>) >>

\* camera2::CameraController::new(4.0, 0.8), main.rs:178: the controller
\* starts inactive; only grab_camera and ungrab_camera set is_active
CameraControllerNew == [is_active |-> FALSE]

StateInit ==
    /\ state_size \in Sizes
    /\ sc_desc = state_size
    /\ depth_texture = state_size
    /\ projection = state_size
    /\ state_light = StateLightNew
    /\ uniform_buffer = update_view_proj(state_size)
    /\ light_buffer = StateLightNew
    /\ is_active = CameraControllerNew.is_active
    /\ cursor_visible = TRUE
    /\ cursor_grab = FALSE
    /\ control_flow = "Poll"
    /\ panicked = FALSE
    /\ submissions = <<>>

Running_after_panic == control_flow = "Poll"
Running == control_flow = "Poll" /\ ~panicked

\* texture.rs:29-73: the extent of the depth texture is the width and the
\* height of the swap-chain descriptor
create_depth_texture(desc) == <<desc[1], desc[2]>>

resize_keeps_depth_texture(new_size) ==
    /\ state_size' = new_size
    /\ sc_desc' = new_size
    /\ depth_texture' = depth_texture
    /\ projection' = new_size
\* main.rs:484-500 (State::resize), reached from Resized and ScaleFactorChanged
resize(new_size) ==
    /\ state_size' = new_size
    /\ sc_desc' = new_size
    /\ depth_texture' = create_depth_texture(sc_desc')
    /\ projection' = new_size

\* main.rs:542-552
grab_camera ==
    /\ is_active' = TRUE
    /\ cursor_visible' = FALSE
    /\ cursor_grab' = TRUE
ungrab_camera ==
    /\ is_active' = FALSE
    /\ cursor_visible' = TRUE
    /\ cursor_grab' = FALSE

\* WindowEvent::Resized / ScaleFactorChanged: input() returns false
EvResized(new_size) ==
    /\ Running
    /\ resize(new_size)
    /\ UNCHANGED kanvasVars
    /\ UNCHANGED unitVars
    /\ UNCHANGED <<state_light, uniform_buffer, light_buffer, is_active, cursor_visible,
                   cursor_grab, control_flow, panicked, submissions>>

\* WindowEvent::CloseRequested: input() returns false
EvCloseRequested ==
    /\ Running
    /\ control_flow' = "Exit"
    /\ UNCHANGED kanvasVars
    /\ UNCHANGED unitVars
    /\ UNCHANGED <<state_size, sc_desc, depth_texture, projection, state_light, uniform_buffer,
                   light_buffer, is_active, cursor_visible, cursor_grab, panicked,
                   submissions>>

EvEscape_always_exits(pressed) ==
    /\ Running
    /\ control_flow' = IF pressed THEN "Exit" ELSE control_flow
    /\ UNCHANGED <<is_active, cursor_visible, cursor_grab>>
    /\ UNCHANGED kanvasVars
    /\ UNCHANGED unitVars
    /\ UNCHANGED <<state_size, sc_desc, depth_texture, projection, state_light, uniform_buffer,
                   light_buffer, panicked, submissions>>
\* WindowEvent::KeyboardInput with Escape: main.rs:513-524, then main.rs:34-41
EvEscape(pressed) ==
    /\ Running
    /\ IF pressed /\ is_active
       THEN ungrab_camera /\ UNCHANGED control_flow
       ELSE /\ control_flow' = IF pressed THEN "Exit" ELSE control_flow
            /\ UNCHANGED <<is_active, cursor_visible, cursor_grab>>
    /\ UNCHANGED kanvasVars
    /\ UNCHANGED unitVars
    /\ UNCHANGED <<state_size, sc_desc, depth_texture, projection, state_light, uniform_buffer,
                   light_buffer, panicked, submissions>>

\* WindowEvent::MouseInput with the left button: main.rs:531-537
EvMouseLeft ==
    /\ Running
    /\ grab_camera
    /\ UNCHANGED kanvasVars
    /\ UNCHANGED unitVars
    /\ UNCHANGED <<state_size, sc_desc, depth_texture, projection, state_light, uniform_buffer,
                   light_buffer, control_flow, panicked, submissions>>

\* Event::RedrawRequested: state.update(dt); state.render()  (main.rs:55-61)
\* update (main.rs:565-612) records and submits its own encoder; render
\* (main.rs:614-636) acquires the frame, which panics on a timeout, then
\* records and submits a second encoder
EvRedrawRequested_one_encoder(quarter_turns, acquired) ==
    /\ Running
    /\ LET uniforms == update_view_proj(projection)
           new_light == [state_light EXCEPT !.position = RotateY(@, quarter_turns)]
           updated == update_encoder(uniforms, new_light)
       IN /\ state_light' = new_light
          /\ uniform_buffer' = updated[1].src.staging
          /\ light_buffer' = updated[2].src.staging
          /\ IF acquired
             THEN /\ submissions' = << updated \o render_encoder \o << QueueSubmit >> >>
                  /\ panicked' = FALSE
             ELSE /\ submissions' = << >>
                  /\ panicked' = TRUE
    /\ UNCHANGED kanvasVars
    /\ UNCHANGED unitVars
    /\ UNCHANGED <<state_size, sc_desc, depth_texture, projection, is_active, cursor_visible,
                   cursor_grab, control_flow>>
EvRedrawRequested_stale_light(quarter_turns, acquired) ==
    /\ Running
    /\ LET uniforms == update_view_proj(projection)
           new_light == [state_light EXCEPT !.position = RotateY(@, quarter_turns)]
           updated == update_encoder(uniforms, state_light) \o << QueueSubmit >>
       IN /\ state_light' = new_light
          /\ uniform_buffer' = updated[1].src.staging
          /\ light_buffer' = updated[2].src.staging
          /\ IF acquired
             THEN /\ submissions' = << updated, render_encoder \o << QueueSubmit >> >>
                  /\ panicked' = FALSE
             ELSE /\ submissions' = << updated >>
                  /\ panicked' = TRUE
    /\ UNCHANGED kanvasVars
    /\ UNCHANGED unitVars
    /\ UNCHANGED <<state_size, sc_desc, depth_texture, projection, is_active, cursor_visible,
                   cursor_grab, control_flow>>
EvRedrawRequested(quarter_turns, acquired) ==
    /\ Running
    /\ LET uniforms == update_view_proj(projection)
           new_light == [state_light EXCEPT !.position = RotateY(@, quarter_turns)]
           updated == update_encoder(uniforms, new_light) \o << QueueSubmit >>
       IN /\ state_light' = new_light
          /\ uniform_buffer' = updated[1].src.staging
          /\ light_buffer' = updated[2].src.staging
          /\ IF acquired
             THEN /\ submissions' = << updated, render_encoder \o << QueueSubmit >> >>
                  /\ panicked' = FALSE
             ELSE /\ submissions' = << updated >>
                  /\ panicked' = TRUE
    /\ UNCHANGED kanvasVars
    /\ UNCHANGED unitVars
    /\ UNCHANGED <<state_size, sc_desc, depth_texture, projection, is_active, cursor_visible,
                   cursor_grab, control_flow>>

StateNext ==
    \/ \E new_size \in Sizes : EvResized(new_size)
    \/ EvCloseRequested
    \/ \E pressed \in BOOLEAN : EvEscape(pressed)
    \/ EvMouseLeft
    \/ \E q \in 1 .. MaxQuarterTurns : \E acquired \in BOOLEAN : EvRedrawRequested(q, acquired)

(***************************************************************************)
(* Lights: the slot array, add_light and the packed form (light.rs)        *)
(***************************************************************************)
\* the variables of the library frame other than the slot array
frameVars == <<config_shadows_enabled, ui_shadows_enabled, pc, light_index, face_index,
               mesh_index, calls, submits, gpu>>

\* cgmath's Vector3::extend and Vector4::zero
Extend(v, w) == <<v[1], v[2], v[3], w>>
ZeroVector4 == <<0, 0, 0, 0>>

\* light.rs:126-139
map_raw_short_loop(ls) ==
    [positions |-> [i \in LightSlots |->
                       IF i < MAX_LIGHTS - 1 /\ ls[i].occupied
                       THEN Extend(ls[i].position, 0) ELSE ZeroVector4],
     colors |-> [i \in LightSlots |->
                    IF i < MAX_LIGHTS - 1 /\ ls[i].occupied
                    THEN Extend(ls[i].color, 0) ELSE ZeroVector4]]
map_raw(ls) ==
    [positions |-> [i \in LightSlots |->
                       IF ls[i].occupied THEN Extend(ls[i].position, 0) ELSE ZeroVector4],
     colors |-> [i \in LightSlots |->
                    IF ls[i].occupied THEN Extend(ls[i].color, 0) ELSE ZeroVector4]]
\* light.rs:122-124
to_raw(ls) == map_raw(ls)

\* an Option<LightId>
SomeId(i) == <<"Some", i>>
NoneId == <<"None", 0>>
\* the LightSet with every slot empty
EmptyLights == [i \in LightSlots |-> NoLight]
EmptySlots(ls) == {i \in LightSlots : ~ls[i].occupied}
\* add_light: the light goes into the first empty slot, whose index is the
\* id; a full set is left as it is and none is returned
add_light_replaces_last(ls, position) ==
    IF EmptySlots(ls) = {}
    THEN [lights |-> [ls EXCEPT ![MAX_LIGHTS - 1] = Light(position, Vector3(1, 1, 1))],
          id |-> SomeId(MAX_LIGHTS - 1)]
    ELSE LET i == CHOOSE j \in EmptySlots(ls) : \A k \in EmptySlots(ls) : j <= k
         IN [lights |-> [ls EXCEPT ![i] = Light(position, Vector3(1, 1, 1))],
             id |-> SomeId(i)]
add_light(ls, position) ==
    IF EmptySlots(ls) = {}
    THEN [lights |-> ls, id |-> NoneId]
    ELSE LET i == CHOOSE j \in EmptySlots(ls) : \A k \in EmptySlots(ls) : j <= k
         IN [lights |-> [ls EXCEPT ![i] = Light(position, Vector3(1, 1, 1))],
             id |-> SomeId(i)]

\* positions and colours lights are given
AddPositions == {Vector3(1, 2, 3), Vector3(-15, 12, 8), Vector3(10, 10, 0), Vector3(0, 0, 0)}
LightColors == {Vector3(1, 1, 1), Vector3(1, 0, 0), Vector3(0, 0, 0)}
\* the add_light calls made
MaxAddCalls == 4
\* every content a slot can have, and every slot array
SlotContents == {NoLight} \cup {Light(p, c) : p \in AddPositions, c \in LightColors}
SlotArrays == [LightSlots -> SlotContents]

\* Lights::new (light.rs:51-60): the buffer is created with the packed lights
LightsInit ==
    /\ added = <<>>
    /\ lights_raw = <<>>
    /\ lights_buffer = map_raw(lights)

\* one add_light call
AddLight(position) ==
    /\ Len(added) < MaxAddCalls
    /\ LET r == add_light(lights, position)
       IN /\ lights' = r.lights
          /\ added' = Append(added, r.id)
    /\ UNCHANGED <<lights_raw, lights_buffer>>
    /\ UNCHANGED <<frameVars, stateVars, cubeVars, drawVars, billboardVars>>
    /\ UNCHANGED saveVars

\* one to_raw call (&self)
ToRaw_takes ==
    /\ lights_raw' = << to_raw(lights) >>
    /\ lights' = EmptyLights
    /\ UNCHANGED <<added, lights_buffer>>
    /\ UNCHANGED <<frameVars, stateVars, cubeVars, drawVars, billboardVars>>
    /\ UNCHANGED saveVars
ToRaw ==
    /\ lights_raw' = << to_raw(lights) >>
    /\ UNCHANGED <<lights, added, lights_buffer>>
    /\ UNCHANGED <<frameVars, stateVars, cubeVars, drawVars, billboardVars>>
    /\ UNCHANGED saveVars

\* the coordinates of the light positions tried: -MaxCoord .. MaxCoord
MaxCoord == 2
CubePositions ==
    {Vector3(x, y, z) : x \in (0 - MaxCoord) .. MaxCoord, y \in (0 - MaxCoord) .. MaxCoord,
                        z \in (0 - MaxCoord) .. MaxCoord}

CubeInit ==
    /\ light_pos = ZeroVector3
    /\ cube_projections = <<>>

\* one create_light_proj_cube call
CreateLightProjCube(p) ==
    /\ light_pos' = p
    /\ cube_projections' = create_light_proj_cube(p)
    /\ UNCHANGED <<kanvasVars, stateVars, lightVars, drawVars, billboardVars>>
    /\ UNCHANGED saveVars

\* the models tried: up to MaxMeshes meshes, each with one of NumMaterials
\* materials of the model; the instance ranges tried end at MaxInstances
MaxMeshes == 3
NumMaterials == 2
MaxInstances == 3
Models ==
    {[meshes |-> [k \in DOMAIN ms |-> [id |-> k - 1, material |-> ms[k]]]] :
        ms \in UNION {[1 .. n -> 0 .. NumMaterials - 1] : n \in 0 .. MaxMeshes}}
InstanceRanges == UNION {{Range(a, b) : b \in a .. MaxInstances} : a \in 0 .. 1}

DrawInit ==
    /\ model_drawn = [meshes |-> <<>>]
    /\ range_drawn = Range(0, 1)
    /\ draw_calls = <<>>

\* one draw_model_instanced call into a fresh render pass
DrawModelInstanced(model, instances) ==
    /\ model_drawn' = model
    /\ range_drawn' = instances
    /\ draw_calls' = draw_model_instanced(<<>>, model, instances, <<"uniforms", 0>>,
                                          <<"instances", 0>>, <<"lights", 0>>)
    /\ UNCHANGED <<kanvasVars, stateVars, lightVars, cubeVars, billboardVars>>
    /\ UNCHANGED saveVars

(***************************************************************************)
(* Billboards (billboard.rs)                                               *)
(***************************************************************************)
\* billboard.rs:12
MAX_BILLBOARDS == 10000
\* model.rs:407-409: an instance is one Matrix4
SizeOfInstanceRaw == SizeOfMatrix4
\* geometry.rs:23
PLANE_INDICES == <<0, 1, 2, 0, 2, 3>>

\* cgmath's Matrix4::new takes the sixteen entries column by column; a
\* matrix is its four columns x, y, z, w, each with its rows x, y, z, w
Matrix4New(c0r0, c0r1, c0r2, c0r3, c1r0, c1r1, c1r2, c1r3, c2r0, c2r1, c2r2, c2r3, c3r0, c3r1, c3r2, c3r3) ==
    << <<c0r0, c0r1, c0r2, c0r3>>, <<c1r0, c1r1, c1r2, c1r3>>,
       <<c2r0, c2r1, c2r2, c2r3>>, <<c3r0, c3r1, c3r2, c3r3>> >>

billboard_transform_not_transposed(view, position) ==
    Matrix4New(view[1][1], view[1][2], view[1][3], 0,
               view[2][1], view[2][2], view[2][3], 0,
               view[3][1], view[3][2], view[3][3], 0,
               position[1], position[2], position[3], 1)
billboard_transform_view_w(view, position) ==
    Matrix4New(view[1][1], view[2][1], view[3][1], 0,
               view[1][2], view[2][2], view[3][2], 0,
               view[1][3], view[2][3], view[3][3], 0,
               view[4][1], view[4][2], view[4][3], 1)
\* billboard.rs:91-108
billboard_transform(view, position) ==
    Matrix4New(view[1][1], view[2][1], view[3][1], 0,
               view[1][2], view[2][2], view[3][2], 0,
               view[1][3], view[2][3], view[3][3], 0,
               position[1], position[2], position[3], 1)

\* billboard.rs:16-19, 21-25
Billboard(position, material) == [position |-> position, material |-> material]
BillboardData(num_instances, instance_buffer, instance_bind_group) ==
    [num_instances |-> num_instances, instance_buffer |-> instance_buffer,
     instance_bind_group |-> instance_bind_group]

\* the buffer and bind group created on an insert (billboard.rs:47-70); a
\* created buffer is distinct from every buffer created before
NewInstanceBuffer(bufs) == <<"billboard_instances", Cardinality(DOMAIN bufs)>>
NewBillboardData(bufs) ==
    BillboardData(0, NewInstanceBuffer(bufs), <<"instances_bind_group", NewInstanceBuffer(bufs)>>)
CreateBuffer(bufs) ==
    bufs @@ (NewInstanceBuffer(bufs)
                :> [size |-> MAX_BILLBOARDS * SizeOfInstanceRaw, data |-> <<>>])

billboards_insert_always_allocates(next, bbs, insts, bufs, billboard) ==
    LET material == billboard.material
        insts1 == [m \in DOMAIN insts \cup {material} |->
                     IF m = material THEN NewBillboardData(bufs) ELSE insts[m]]
        id == next
    IN [next_id |-> next + 1,
        billboards |-> bbs @@ (id :> billboard),
        instances |-> [insts1 EXCEPT ![material].num_instances = @ + 1],
        buffers |-> CreateBuffer(bufs),
        id |-> id]
billboards_insert_returns_next(next, bbs, insts, bufs, billboard) ==
    LET material == billboard.material
        present == material \in DOMAIN insts
        insts1 == IF present THEN insts ELSE insts @@ (material :> NewBillboardData(bufs))
        id == next
    IN [next_id |-> next + 1,
        billboards |-> bbs @@ (id :> billboard),
        instances |-> [insts1 EXCEPT ![material].num_instances = @ + 1],
        buffers |-> IF present THEN bufs ELSE CreateBuffer(bufs),
        id |-> next + 1]
\* billboard.rs:45-80
billboards_insert(next, bbs, insts, bufs, billboard) ==
    LET material == billboard.material
        present == material \in DOMAIN insts
        insts1 == IF present THEN insts ELSE insts @@ (material :> NewBillboardData(bufs))
        id == next
    IN [next_id |-> next + 1,
        billboards |-> bbs @@ (id :> billboard),
        instances |-> [insts1 EXCEPT ![material].num_instances = @ + 1],
        buffers |-> IF present THEN bufs ELSE CreateBuffer(bufs),
        id |-> id]

\* billboard.rs:82-120: one write per billboard into the buffer of its
\* material, at the byte offset id * instance_size; the writes go to
\* distinct places, so the iteration order of the map does not matter
billboards_upload(bbs, insts, bufs, view) ==
    [b \in DOMAIN bufs |->
        LET written == {id * SizeOfInstanceRaw :
                          id \in {i \in DOMAIN bbs : insts[bbs[i].material].instance_buffer = b}}
            offsets == DOMAIN bufs[b].data \cup written
        IN IF offsets = {} THEN bufs[b]
           ELSE [bufs[b] EXCEPT !.data =
                   [o \in offsets |->
                      IF o \in written
                      THEN [model |-> billboard_transform(view,
                                          bbs[o \div SizeOfInstanceRaw].position)]
                      ELSE bufs[b].data[o]]]]

\* billboard.rs:132-141: the loop over the materials of `instances`, in the
\* order the map yields them, from the k-th on
RECURSIVE billboards_render_from(_, _, _, _)
billboards_render_from(cs, insts, order, k) ==
    IF k > Len(order) THEN cs
    ELSE billboards_render_from(
             cs \o << SetBindGroup(0, <<"material", order[k]>>, <<>>),
                      SetBindGroup(2, insts[order[k]].instance_bind_group, <<>>),
                      DrawIndexed(Range(0, Len(PLANE_INDICES)), 0,
                                  Range(0, insts[order[k]].num_instances)) >>,
             insts, order, k + 1)
\* billboard.rs:122-142
billboards_render(insts, order) ==
    billboards_render_from(<< SetVertexBuffer(0, <<"plane.vertex_buffer", 0>>),
                   SetIndexBuffer(<<"plane.index_buffer", 0>>),
                   SetBindGroup(1, <<"uniforms", 0>>, <<>>) >>,
                insts, order, 1)
\* the orders in which a HashMap may yield the keys S
IterationOrders(S) ==
    {order \in [1 .. Cardinality(S) -> S] :
        \A j \in DOMAIN order : \A k \in DOMAIN order : j # k => order[j] # order[k]}

\* the insert calls tried, the positions and materials given to them and the
\* view matrices of the camera: the identity, a translation, the same
\* translation after a quarter turn about y, and a matrix whose entries all
\* differ
MaxInserts == 3
BillboardPositions == {Vector3(0, 0, 0), Vector3(4, -5, 6)}
BillboardMaterials == 0 .. NumMaterials - 1
ViewMats ==
    {Matrix4New(1, 0, 0, 0, 0, 1, 0, 0, 0, 0, 1, 0, 0, 0, 0, 1),
     Matrix4New(1, 0, 0, 0, 0, 1, 0, 0, 0, 0, 1, 0, 2, -3, 5, 1),
     Matrix4New(0, 0, -1, 0, 0, 1, 0, 0, 1, 0, 0, 0, 2, -3, 5, 1),
     Matrix4New(11, 12, 13, 14, 21, 22, 23, 24, 31, 32, 33, 34, 41, 42, 43, 44)}

\* billboard.rs:35-43 (Billboards::new)
BillboardInit ==
    /\ next_id = 0
    /\ billboards = <<>>
    /\ billboard_instances = <<>>
    /\ view_mat = <<>>
    /\ instance_buffers = <<>>
    /\ pass_calls = <<>>
    /\ inserted = <<>>

\* Billboards after n inserts with one material, before any upload or render
FilledBillboards(n) ==
    /\ next_id = n
    /\ billboards = [i \in 0 .. n - 1 |-> Billboard(Vector3(0, 0, 0), 0)]
    /\ billboard_instances
          = (0 :> BillboardData(n, NewInstanceBuffer(<<>>),
                                <<"instances_bind_group", NewInstanceBuffer(<<>>)>>))
    /\ instance_buffers = CreateBuffer(<<>>)
    /\ view_mat = <<>>
    /\ pass_calls = <<>>
    /\ inserted = <<>>

\* one Billboards::insert call
Insert(material, position) ==
    /\ Len(inserted) < MaxInserts
    /\ LET r == billboards_insert(next_id, billboards, billboard_instances, instance_buffers,
                       Billboard(position, material))
       IN /\ next_id' = r.next_id
          /\ billboards' = r.billboards
          /\ billboard_instances' = r.instances
          /\ instance_buffers' = r.buffers
          /\ inserted' = Append(inserted, r.id)
    /\ UNCHANGED <<view_mat, pass_calls>>
    /\ UNCHANGED <<kanvasVars, stateVars, lightVars, cubeVars, drawVars>>
    /\ UNCHANGED saveVars

\* one Billboards::upload call with the camera's view matrix
Upload(view) ==
    /\ view_mat' = view
    /\ instance_buffers' = billboards_upload(billboards, billboard_instances, instance_buffers, view)
    /\ UNCHANGED <<next_id, billboards, billboard_instances, pass_calls, inserted>>
    /\ UNCHANGED <<kanvasVars, stateVars, lightVars, cubeVars, drawVars>>
    /\ UNCHANGED saveVars

\* one Billboards::render call into a fresh render pass
Render(order) ==
    /\ pass_calls' = billboards_render(billboard_instances, order)
    /\ UNCHANGED <<next_id, billboards, billboard_instances, view_mat, instance_buffers, inserted>>
    /\ UNCHANGED <<kanvasVars, stateVars, lightVars, cubeVars, drawVars>>
    /\ UNCHANGED saveVars

(***************************************************************************)
(* save_texture (debug.rs)                                                 *)
(***************************************************************************)
\* debug.rs:227: size_of::<u32>()
U32_SIZE == 4
\* the contents of a buffer nothing has been written to, and the texels a
\* texture-to-buffer copy of a texture writes
UNWRITTEN == <<"unwritten", 0>>
TexelsOf(texture) == <<"texels", texture>>
SCREENSHOT_BUFFER == <<"screenshot_buffer", 0>>
NoBuffer == [size |-> 0, contents |-> UNWRITTEN, map |-> "none"]

\* the widths and heights tried, up to MaxExtent, and the textures
MaxExtent == 3
SaveTextures == {<<"depth_texture", 0>>, <<"test_material.diffuse_texture", 0>>}

SaveInit ==
    /\ save_pc = "idle"
    /\ save_args = <<>>
    /\ save_encoder = <<>>
    /\ save_queue = <<>>
    /\ screenshot_buffer = NoBuffer
    /\ thread_pc = "none"
    /\ thread_pixels = UNWRITTEN
    /\ image_png = <<>>

\* debug.rs:227-239: the readback buffer and the encoder are created
SaveCreate(width, height, texture) ==
    /\ save_pc = "idle"
    /\ save_pc' = "created"
    /\ save_args' = [width |-> width, height |-> height, texture |-> texture]
    /\ screenshot_buffer' = [size |-> U32_SIZE * width * height, contents |-> UNWRITTEN,
                             map |-> "unmapped"]
    /\ UNCHANGED <<save_encoder, save_queue, thread_pc, thread_pixels, image_png>>
    /\ UNCHANGED <<kanvasVars, stateVars, lightVars, cubeVars, drawVars, billboardVars>>

\* debug.rs:241-261: the copy is recorded into the encoder
SaveRecordCopy ==
    /\ save_pc = "created"
    /\ save_pc' = "recorded"
    /\ save_encoder' = << CopyTextureToBuffer(save_args.texture, SCREENSHOT_BUFFER) >>
    /\ UNCHANGED <<save_args, save_queue, screenshot_buffer, thread_pc, thread_pixels, image_png>>
    /\ UNCHANGED <<kanvasVars, stateVars, lightVars, cubeVars, drawVars, billboardVars>>

\* debug.rs:265: std::thread::spawn
SaveSpawn ==
    /\ save_pc = "recorded"
    /\ save_pc' = "spawned"
    /\ thread_pc' = "spawned"
    /\ UNCHANGED <<save_args, save_encoder, save_queue, screenshot_buffer, thread_pixels, image_png>>
    /\ UNCHANGED <<kanvasVars, stateVars, lightVars, cubeVars, drawVars, billboardVars>>

\* debug.rs:293: save_texture returns; its encoder, never finished and never
\* submitted, is dropped with what it recorded
SaveReturn ==
    /\ save_pc = "spawned"
    /\ save_pc' = "returned"
    /\ save_encoder' = <<>>
    /\ UNCHANGED <<save_args, save_queue, screenshot_buffer, thread_pc, thread_pixels, image_png>>
    /\ UNCHANGED <<kanvasVars, stateVars, lightVars, cubeVars, drawVars, billboardVars>>

\* debug.rs:268-269: the thread asks for the mapping and blocks on it
ThreadMapAsync ==
    /\ thread_pc = "spawned"
    /\ thread_pc' = "waiting"
    /\ screenshot_buffer' = [screenshot_buffer EXCEPT !.map = "pending"]
    /\ UNCHANGED <<save_pc, save_args, save_encoder, save_queue, thread_pixels, image_png>>
    /\ UNCHANGED <<kanvasVars, stateVars, lightVars, cubeVars, drawVars, billboardVars>>

\* the device is maintained by whoever polls it or submits to its queue: the
\* submitted command buffers are executed, then a pending mapping of a
\* buffer no unexecuted command uses is resolved
DeviceMaintain ==
    /\ screenshot_buffer.map = "pending"
    /\ screenshot_buffer' =
          [screenshot_buffer EXCEPT
              !.map = "mapped",
              !.contents = IF \E n \in DOMAIN save_queue : \E k \in DOMAIN save_queue[n] :
                                  save_queue[n][k].op = "copy_texture_to_buffer"
                           THEN TexelsOf(save_args.texture)
                           ELSE @]
    /\ save_queue' = <<>>
    /\ UNCHANGED <<save_pc, save_args, save_encoder, thread_pc, thread_pixels, image_png>>
    /\ UNCHANGED <<kanvasVars, stateVars, lightVars, cubeVars, drawVars, billboardVars>>

\* debug.rs:270-271: the mapping is resolved and the mapped range is read
ThreadRead ==
    /\ thread_pc = "waiting"
    /\ screenshot_buffer.map = "mapped"
    /\ thread_pc' = "read"
    /\ thread_pixels' = screenshot_buffer.contents
    /\ UNCHANGED <<save_pc, save_args, save_encoder, save_queue, screenshot_buffer, image_png>>
    /\ UNCHANGED <<kanvasVars, stateVars, lightVars, cubeVars, drawVars, billboardVars>>

\* debug.rs:273-291: the pixels are converted and saved
ThreadSave ==
    /\ thread_pc = "read"
    /\ thread_pc' = "saved"
    /\ image_png' = [width |-> save_args.width, height |-> save_args.height,
                     pixels |-> thread_pixels]
    /\ UNCHANGED <<save_pc, save_args, save_encoder, save_queue, screenshot_buffer, thread_pixels>>
    /\ UNCHANGED <<kanvasVars, stateVars, lightVars, cubeVars, drawVars, billboardVars>>

UnitInit == LightsInit /\ CubeInit /\ DrawInit /\ BillboardInit /\ SaveInit

(***************************************************************************)
(* Specifications                                                          *)
(***************************************************************************)
vars == <<kanvasVars, stateVars, unitVars>>

\* the library frame; the application keeps its initial state
Init == KanvasInit /\ StateInit /\ UnitInit /\ state_size = <<800, 600>>
Next == KanvasNext
Spec == Init /\ [][Next]_vars

\* the application of main.rs; the library frame keeps its initial state
InitState == KanvasInit /\ StateInit /\ UnitInit
NextState == StateNext
SpecState == InitState /\ [][NextState]_vars

\* the library frame run as the one function it is: once begun, each step
\* of the frame follows the one before
FrameStep ==
    \/ UpdateLight
    \/ BeginFace
    \/ DrawMesh
    \/ EndFace
    \/ CopyCubemap
    \/ ForwardPass
    \/ \E checkbox \in BOOLEAN : UiRender(checkbox)
    \/ Submit
SpecFrame == Init /\ [][Next]_vars /\ WF_vars(FrameStep)

\* the library frame's state with the slot array left free
FrameIdle ==
    /\ config_shadows_enabled = TRUE
    /\ ui_shadows_enabled = TRUE
    /\ pc = "idle"
    /\ light_index = 0
    /\ face_index = 0
    /\ mesh_index = 0
    /\ calls = <<>>
    /\ submits = 0
    /\ gpu = GpuInit

\* a LightSet filled by add_light from empty, packed at any time
InitLights ==
    /\ lights = EmptyLights
    /\ FrameIdle /\ StateInit /\ UnitInit /\ state_size = <<800, 600>>
NextLights ==
    \/ \E position \in AddPositions : AddLight(position)
    \/ ToRaw
SpecLights == InitLights /\ [][NextLights]_vars

\* create_light_proj_cube applied to every position of the grid
NextCube == \E p \in CubePositions : CreateLightProjCube(p)
SpecCube == Init /\ [][NextCube]_vars

\* draw_model_instanced applied to every model and instance range tried
NextDraw == \E model \in Models : \E instances \in InstanceRanges : DrawModelInstanced(model, instances)
SpecDraw == Init /\ [][NextDraw]_vars

\* any sequence of insert, upload and render calls
NextBillboards ==
    \/ \E material \in BillboardMaterials : \E position \in BillboardPositions :
          Insert(material, position)
    \/ \E view \in ViewMats : Upload(view)
    \/ \E order \in IterationOrders(DOMAIN billboard_instances) : Render(order)
SpecBillboards == Init /\ [][NextBillboards]_vars

\* inserts into Billboards whose one material is at or just below the limit
InitFull ==
    /\ KanvasInit /\ StateInit /\ LightsInit /\ CubeInit /\ DrawInit /\ SaveInit
    /\ state_size = <<800, 600>>
    /\ \E n \in MAX_BILLBOARDS - 2 .. MAX_BILLBOARDS : FilledBillboards(n)
NextFull ==
    \E material \in BillboardMaterials : \E position \in BillboardPositions :
        Insert(material, position)
SpecFull == InitFull /\ [][NextFull]_vars

\* one save_texture call, its thread and the maintenance of the device
NextSave ==
    \/ \E width \in 1 .. MaxExtent : \E height \in 1 .. MaxExtent : \E texture \in SaveTextures :
          SaveCreate(width, height, texture)
    \/ SaveRecordCopy
    \/ SaveSpawn
    \/ SaveReturn
    \/ ThreadMapAsync
    \/ DeviceMaintain
    \/ ThreadRead
    \/ ThreadSave
SpecSave == Init /\ [][NextSave]_vars

\* to_raw applied to every slot array
InitPack ==
    /\ lights \in SlotArrays
    /\ FrameIdle /\ StateInit /\ UnitInit /\ state_size = <<800, 600>>
NextPack == ToRaw
SpecPack == InitPack /\ [][NextPack]_vars

(***************************************************************************)
(* Properties of the shadow uniform buffer                                 *)
(***************************************************************************)
\* positions in `calls` of the queue writes into the shadow uniform buffer
IsShadowWrite(c) == c.op = "write_buffer" /\ c.buffer = "shadow_uniforms"
ShadowWrites == {k \in DOMAIN calls : IsShadowWrite(calls[k])}
\* positions in `calls` of the dynamic-offset binds of the shadow uniforms
IsShadowBind(c) ==
    c.op = "set_bind_group" /\ c.index = 0 /\ c.group = <<"shadow_uniforms", 0>>
ShadowBinds == {k \in DOMAIN calls : IsShadowBind(calls[k])}
\* the (light, face) pairs the buffer has an entry for
Entries == LightSlots \X Faces
\* the record update_light computes for face f of light i as it stands
TransformOf(i, f) ==
    ShadowUniforms(create_light_proj_cube(lights[i].position)[f + 1], lights[i].position)

\* C1: for every light index below MAX_LIGHTS and every face below 6 the
\* offset light_buffer_offset gives is a multiple of the binding alignment,
\* and two different (light, face) pairs never get the same offset nor
\* alignment-sized ranges that overlap; so is every offset a frame writes
\* at or binds
C1_OffsetsAlignedAndDisjoint ==
    /\ \A e \in Entries :
          light_buffer_offset(e[1], e[2]) % BIND_BUFFER_ALIGNMENT = 0
    /\ \A e1 \in Entries : \A e2 \in Entries :
          e1 # e2 =>
             LET o1 == light_buffer_offset(e1[1], e1[2])
                 o2 == light_buffer_offset(e2[1], e2[2])
             IN /\ o1 # o2
                /\ (o1 + BIND_BUFFER_ALIGNMENT <= o2 \/ o2 + BIND_BUFFER_ALIGNMENT <= o1)
    /\ \A k \in ShadowWrites : calls[k].offset % BIND_BUFFER_ALIGNMENT = 0
    /\ \A k \in ShadowBinds : calls[k].offsets[1] % BIND_BUFFER_ALIGNMENT = 0
    /\ pc \in {"begin", "draw", "copy", "forward", "ui", "submit"} =>
          Cardinality({calls[k].offset : k \in ShadowWrites}) = Cardinality(ShadowWrites)

\* a frame has written all MAX_LIGHTS * 6 entries, each at an offset of its own
C1_Witness ==
    /\ pc = "begin"
    /\ Cardinality(ShadowWrites) = MAX_LIGHTS * NUM_FACES
    /\ Cardinality({calls[k].offset : k \in ShadowWrites}) = MAX_LIGHTS * NUM_FACES

\* the dynamic offset the draw recorded last was bound with: render records
\* the bind two calls before the end of its five
LastBoundOffset == calls[Len(calls) - 2].offsets[1]
\* positions in `calls` of the writes of the record of face f of light i
WritesOf(i, f) == {k \in ShadowWrites : calls[k].data = TransformOf(i, f)}

\* C2: the draw of face face_index of light light_index binds the shadow
\* uniforms at exactly the offset at which update_light stored that light's
\* transform of that face, and that offset is
\* light_index * 6 * alignment + face_index * alignment
C2_WriterAndBinderAgree ==
    (pc = "draw" /\ mesh_index > 0) =>
        /\ IsShadowBind(calls[Len(calls) - 2])
        /\ LastBoundOffset = light_index * 6 * BIND_BUFFER_ALIGNMENT
                             + face_index * BIND_BUFFER_ALIGNMENT
        /\ WritesOf(light_index, face_index) # {}
        /\ \A k \in WritesOf(light_index, face_index) : calls[k].offset = LastBoundOffset
        /\ \A k \in ShadowWrites :
              calls[k].offset = LastBoundOffset => k \in WritesOf(light_index, face_index)

\* a mesh of the last face of the second light has been drawn
C2_Witness ==
    /\ pc = "draw"
    /\ mesh_index > 0
    /\ light_index = 1
    /\ face_index = 5
    /\ LastBoundOffset = 11 * BIND_BUFFER_ALIGNMENT
    /\ \E k \in WritesOf(1, 5) : calls[k].offset = LastBoundOffset

\* C3: the shadow uniform buffer is MAX_LIGHTS * 6 * alignment bytes, a
\* ShadowUniforms record is no larger than the alignment, and every write of
\* a record at an offset update_light uses stays inside its own
\* alignment-sized entry and inside the buffer
C3_BufferHoldsEveryEntry ==
    /\ uniforms_size = MAX_LIGHTS * 6 * BIND_BUFFER_ALIGNMENT
    /\ SizeOfShadowUniforms <= BIND_BUFFER_ALIGNMENT
    /\ \A e \in Entries :
          light_buffer_offset(e[1], e[2]) + SizeOfShadowUniforms <= uniforms_size
    /\ \A k \in ShadowWrites :
          LET w == calls[k]
          IN /\ w.size = SizeOfShadowUniforms
             /\ w.offset + w.size <= uniforms_size
             /\ w.offset \div BIND_BUFFER_ALIGNMENT
                   = (w.offset + w.size - 1) \div BIND_BUFFER_ALIGNMENT
    /\ ~gpu.error
    /\ \A e \in gpu.uniforms : e.offset + e.size <= uniforms_size

\* a submitted frame has stored the last entry of the buffer, which ends
\* below the end of the buffer
C3_Witness ==
    /\ pc = "idle"
    /\ submits = 1
    /\ \E e \in gpu.uniforms :
          /\ e.offset = (MAX_LIGHTS * 6 - 1) * BIND_BUFFER_ALIGNMENT
          /\ e.size = SizeOfShadowUniforms
    /\ Cardinality(gpu.uniforms) = MAX_LIGHTS * 6

(***************************************************************************)
(* Properties of the recorded frame                                        *)
(***************************************************************************)
IsCopy(c) == c.op = "copy_texture_to_texture"
\* the texture copies of the frame, in the order recorded
CopiesRecorded == SelectSeq(calls, IsCopy)
\* positions in `calls` of the texture copies and of the pass beginnings
Copies == {k \in DOMAIN calls : IsCopy(calls[k])}
Begins == {k \in DOMAIN calls : calls[k].op = "begin_render_pass"}
IsShadowTarget(view) == view[1] = "shadow_target"
\* the largest member of a non-empty set of positions
Last(S) == CHOOSE k \in S : \A j \in S : j <= k
\* the depth attachment of the pass that call j is recorded in
PassOf(j) == calls[Last({b \in Begins : b < j})].depth.attachment
\* positions of the passes that clear face target f
ClearsOf(f) == {b \in Begins : /\ calls[b].depth.attachment = ShadowTarget(f)
                               /\ calls[b].depth.load = LoadClear}

\* C4: copy_to_cubemap records exactly six texture copies; the copy of face
\* f reads the whole of face target f from its origin and writes array layer
\* f of the given cubemap at x = 0, y = 0, with an extent of 1024 x 1024 x 1
C4_SixCopiesFaceToLayer ==
    /\ Len(CopiesRecorded) % NUM_FACES = 0
    /\ \A j \in DOMAIN CopiesRecorded :
          LET c == CopiesRecorded[j]
              f == (j - 1) % NUM_FACES
              first == CopiesRecorded[j - f]
          IN /\ c.src = ShadowTarget(f)
             /\ c.src_origin = Origin3d(0, 0, 0)
             /\ c.dst = first.dst
             /\ c.dst[1] = "shadow_cubemap"
             /\ c.dst_origin = Origin3d(0, 0, f)
             /\ c.extent = Extent3d(SHADOW_WIDTH, SHADOW_HEIGHT, 1)
    /\ \A k \in Copies :
          (k = 1 \/ ~IsCopy(calls[k - 1])) =>
             /\ k + NUM_FACES - 1 <= Len(calls)
             /\ \A d \in 0 .. NUM_FACES - 1 : IsCopy(calls[k + d])
             /\ (k + NUM_FACES <= Len(calls) => ~IsCopy(calls[k + NUM_FACES]))

\* copy_to_cubemap has just recorded the copies into the second light's cubemap
C4_Witness ==
    /\ pc = "forward"
    /\ Len(CopiesRecorded) = MAX_LIGHTS * NUM_FACES
    /\ calls[Len(calls)] =
          CopyTextureToTexture(ShadowTarget(5), Origin3d(0, 0, 0), ShadowTexture(1),
                               Origin3d(0, 0, 5), Extent3d(1024, 1024, 1))

\* C5: the copy of face target f into layer f of light i's cubemap is
\* recorded after the face has been drawn with light i's transform and
\* before the target is cleared or drawn for another light, so that when the
\* frame has executed, layer f of cubemap i holds the depth of the scene
\* drawn with light i's transform of face f
C5_CubemapHoldsOwnLight ==
    /\ \A k \in Copies :
          LET i == calls[k].dst[2]
              f == calls[k].src[2]
              before == {b \in ClearsOf(f) : b < k}
              own == {b \in ShadowBinds : /\ Last(before) < b
                                          /\ b < k
                                          /\ PassOf(b) = ShadowTarget(f)}
          IN /\ before # {}
             /\ own # {}
             /\ \A b \in own :
                   /\ calls[b + 2].op = "draw_indexed"
                   /\ \E w \in WritesOf(i, f) : calls[w].offset = calls[b].offsets[1]
    /\ (pc = "idle" /\ submits = 1 /\ config_shadows_enabled) =>
          \A i \in LightSlots : \A f \in Faces :
             lights[i].occupied =>
                gpu.cubemaps[i][f] =
                   Image(DEPTH_FAR,
                         {[uniforms |-> TransformOf(i, f),
                           vertex_buffer |-> <<"vertex_buffer", m>>] : m \in Meshes})

\* a frame with shadows has executed after the first light was moved: its
\* cubemap holds the scene as seen from the new position, the second light's
\* cubemap holds the scene as seen from the second light
C5_Witness ==
    /\ pc = "idle"
    /\ submits = 1
    /\ config_shadows_enabled
    /\ lights[0].position = Vector3(-14, 12, 8)
    /\ \A d \in gpu.cubemaps[0][3].draws : d.uniforms.light_position = Vector3(-14, 12, 8)
    /\ \A d \in gpu.cubemaps[1][3].draws : d.uniforms.light_position = lights[1].position
    /\ Cardinality(gpu.cubemaps[1][3].draws) = NumMeshes

\* C7: every write of a face transform of every occupied light is issued
\* before the first shadow face pass of the frame is begun, so no face draw
\* reads an entry that the frame has not written
C7_WritesBeforeShadowPasses ==
    /\ LET shadow == {b \in Begins : IsShadowTarget(calls[b].depth.attachment)}
       IN shadow # {} =>
             \A i \in LightSlots : \A f \in Faces :
                lights[i].occupied =>
                   \E w \in WritesOf(i, f) :
                      /\ \A b \in shadow : w < b
                      /\ calls[w].offset = i * 6 * BIND_BUFFER_ALIGNMENT
                                           + f * BIND_BUFFER_ALIGNMENT
    /\ \A b \in ShadowBinds :
          \E w \in ShadowWrites : w < b /\ calls[w].offset = calls[b].offsets[1]
    /\ (pc = "idle" /\ submits = 1 /\ config_shadows_enabled) =>
          \A f \in Faces : \A d \in gpu.targets[f].draws :
             /\ d.uniforms # ZeroShadowUniforms
             /\ \E i \in LightSlots : d.uniforms = TransformOf(i, f)

\* the first face pass of a frame has been begun, after all twelve writes
C7_Witness ==
    /\ pc = "draw"
    /\ light_index = 0
    /\ face_index = 0
    /\ Cardinality({b \in Begins : IsShadowTarget(calls[b].depth.attachment)}) = 2
    /\ \A w \in ShadowWrites : \A b \in Begins : w < b
    /\ Cardinality(ShadowWrites) = MAX_LIGHTS * NUM_FACES

\* C8: begin clears the face's depth target to the far value exactly once,
\* in a pass of its own that draws nothing, and then opens the pass that
\* loads the target; every draw through the runner is recorded in that
\* loading pass, so no draw is wiped by a clear before the pass ends
C8_ClearOnceThenLoad ==
    /\ \A b \in Begins :
          LET d == calls[b].depth
          IN IsShadowTarget(d.attachment) =>
                IF d.load = LoadClear
                THEN /\ d.clear_depth = DEPTH_FAR
                     /\ calls[b + 1].op = "end_render_pass"
                     /\ calls[b + 2].op = "begin_render_pass"
                     /\ calls[b + 2].depth.attachment = d.attachment
                     /\ calls[b + 2].depth.load = LoadLoad
                     /\ calls[b + 3] = SetPipeline("shadow")
                ELSE /\ b > 2
                     /\ calls[b - 1].op = "end_render_pass"
                     /\ calls[b - 2].op = "begin_render_pass"
                     /\ calls[b - 2].depth.attachment = d.attachment
                     /\ calls[b - 2].depth.load = LoadClear
    /\ \A k \in ShadowBinds :
          LET b == Last({j \in Begins : j < k})
          IN /\ IsShadowTarget(calls[b].depth.attachment)
             /\ calls[b].depth.load = LoadLoad
    /\ (pc = "idle" /\ submits = 1 /\ config_shadows_enabled) =>
          \A f \in Faces :
             /\ gpu.targets[f].depth = DEPTH_FAR
             /\ Cardinality(gpu.targets[f].draws) = NumMeshes

\* all meshes of a face have been drawn in the loading pass begin opened
C8_Witness ==
    /\ pc = "draw"
    /\ mesh_index = NumMeshes
    /\ LET b == Last(Begins)
       IN /\ calls[b].depth = DepthAttachment(ShadowTarget(face_index), LoadLoad, 0)
          /\ calls[b - 2].depth =
                DepthAttachment(ShadowTarget(face_index), LoadClear, DEPTH_FAR)
          /\ Cardinality({k \in ShadowBinds : k > b}) = NumMeshes

\* what a frame records with shadows disabled, and that it is submitted once
C9_Recorded ==
    /\ ~config_shadows_enabled =>
          /\ \A b \in Begins : ~IsShadowTarget(calls[b].depth.attachment)
          /\ Copies = {}
          /\ ShadowBinds = {}
    /\ (pc \in {"ui", "submit"} \/ (pc = "idle" /\ submits = 1)) =>
          \E b \in Begins : calls[b].label = "forward"
    /\ (pc = "idle" /\ calls # <<>>) =>
          /\ submits = 1
          /\ calls[Len(calls)] = QueueSubmit
          /\ \A k \in 1 .. Len(calls) - 1 : calls[k] # QueueSubmit
    /\ ~gpu.error

\* C9: in a frame whose light configuration has shadows disabled no shadow
\* face pass and no cubemap copy is recorded, the forward pass is still
\* recorded and the frame is submitted; whatever the checkbox was set to,
\* the frame that follows runs to its submission
C9_DisabledSkipsShadows ==
    /\ []C9_Recorded
    /\ \A enabled \in BOOLEAN :
          (pc = "move" /\ config_shadows_enabled = enabled)
             ~> (pc = "idle" /\ submits = 1 /\ config_shadows_enabled = enabled)

\* a frame with shadows disabled has been submitted after a frame with
\* shadows enabled: the cubemaps still hold the earlier frame's depth
C9_Witness ==
    /\ pc = "idle"
    /\ submits = 1
    /\ ~config_shadows_enabled
    /\ Copies = {}
    /\ \E b \in Begins : calls[b].label = "forward"
    /\ gpu.cubemaps[0][0].draws # {}
    /\ gpu.config = [shadows_enabled |-> FALSE]

(***************************************************************************)
(* Properties of the application's redraw (main.rs)                        *)
(***************************************************************************)
IsBegin(c) == c.op = "begin_render_pass"
\* the labels of the passes a command stream begins, in order
PassLabels(cs) == LET begun == SelectSeq(cs, IsBegin)
                  IN [k \in DOMAIN begun |-> begun[k].label]
\* positions in a stream of the beginnings of the passes labelled so
BeginsOf(cs, label) == {k \in DOMAIN cs : IsBegin(cs[k]) /\ cs[k].label = label}
\* positions in a stream of what belongs to the shadow depth pass: its
\* beginning and end, what is recorded between them, and every texture copy
ShadowWork(cs) ==
    {k \in DOMAIN cs :
        \/ IsCopy(cs[k])
        \/ \E b \in BeginsOf(cs, "shadow") :
              /\ b <= k
              /\ \E e \in b .. Len(cs) :
                    /\ cs[e] = EndRenderPass("shadow")
                    /\ k <= e}
\* the redraw ran to its end
RedrawCompleted == submissions # <<>> /\ ~panicked
\* the positions of the submit calls in a stream
SubmitsIn(cs) == {k \in DOMAIN cs : cs[k] = QueueSubmit}

\* C6: in a frame the forward pass is recorded in the same command stream
\* as the shadow depth pass and strictly after all of it, and after every
\* texture copy of that stream
C6_ForwardAfterShadow ==
    /\ \A n \in DOMAIN submissions :
          LET cs == submissions[n]
          IN \A fw \in BeginsOf(cs, "forward") :
                /\ ShadowWork(cs) # {}
                /\ \A k \in ShadowWork(cs) : k < fw
    /\ RedrawCompleted =>
          \E n \in DOMAIN submissions : BeginsOf(submissions[n], "forward") # {}

\* a redraw has recorded the shadow pass and the forward pass in the stream
\* render() submits
C6_Witness ==
    /\ RedrawCompleted
    /\ Len(submissions) = 2
    /\ BeginsOf(submissions[2], "shadow") # {}
    /\ BeginsOf(submissions[2], "forward") # {}
    /\ \A sh \in BeginsOf(submissions[2], "shadow") :
          \A fw \in BeginsOf(submissions[2], "forward") : sh < fw

C11_Ids ==
    /\ \A k \in DOMAIN added :
          added[k] = IF k <= MAX_LIGHTS THEN SomeId(k - 1) ELSE NoneId
    /\ \A i \in LightSlots : lights[i].occupied <=> i < Len(added)

\* C11: starting from an empty set of lights, the first MAX_LIGHTS calls of
\* add_light return the slot indices 0 .. MAX_LIGHTS - 1 in increasing
\* order, every later call returns none, and no call drops or replaces a
\* light that is already stored
C11_AddLightUpToCapacity ==
    /\ []C11_Ids
    /\ [][\A i \in LightSlots : lights[i].occupied => lights'[i] = lights[i]]_vars

\* MAX_LIGHTS + 1 calls were made: the last returned none and the slots hold
\* the lights of the first MAX_LIGHTS calls
C11_Witness ==
    /\ Len(added) = MAX_LIGHTS + 1
    /\ added[MAX_LIGHTS + 1] = NoneId
    /\ added[MAX_LIGHTS] = SomeId(MAX_LIGHTS - 1)
    /\ \A i \in LightSlots : lights[i].occupied
    /\ lights[0].position # lights[1].position

\* r holds, slot by slot, the position and colour of the lights extended
\* with 0, and zeros for the empty slots
PackedAsSlots(r) ==
    /\ DOMAIN r.positions = LightSlots
    /\ DOMAIN r.colors = LightSlots
    /\ \A i \in LightSlots :
          IF lights[i].occupied
          THEN /\ r.positions[i] = <<lights[i].position[1], lights[i].position[2],
                                     lights[i].position[3], 0>>
               /\ r.colors[i] = <<lights[i].color[1], lights[i].color[2],
                                  lights[i].color[3], 0>>
          ELSE /\ r.positions[i] = <<0, 0, 0, 0>>
               /\ r.colors[i] = <<0, 0, 0, 0>>

\* C12: for every slot array, map_raw returns positions and colours that at
\* every index hold the light of that slot extended with 0 when the slot is
\* occupied and the zero vector when it is empty; an all-empty set packs to
\* all zeros and a single light in slot 0 fills index 0 only
C12_PackedSlotBySlot ==
    /\ PackedAsSlots(map_raw(lights))
    /\ lights_raw # <<>> => PackedAsSlots(lights_raw[1])
    /\ (lights_raw # <<>> /\ \A i \in LightSlots : ~lights[i].occupied) =>
          \A i \in LightSlots : /\ lights_raw[1].positions[i] = ZeroVector4
                                /\ lights_raw[1].colors[i] = ZeroVector4

\* to_raw has packed a set whose first slot is empty and whose last slot
\* holds a light at (1, 2, 3) with colour (1, 0, 0)
C12_Witness ==
    /\ lights_raw # <<>>
    /\ ~lights[0].occupied
    /\ lights[MAX_LIGHTS - 1] = Light(Vector3(1, 2, 3), Vector3(1, 0, 0))
    /\ lights_raw[1].positions[0] = <<0, 0, 0, 0>>
    /\ lights_raw[1].positions[MAX_LIGHTS - 1] = <<1, 2, 3, 0>>
    /\ lights_raw[1].colors[MAX_LIGHTS - 1] = <<1, 0, 0, 0>>

\* C13: to_raw leaves the light slots, the GPU buffer of the lights and
\* every other field unchanged, and what it returns is the packed form of
\* the slots as they were and still are, whatever an earlier call returned
C13_PackingIsPure ==
    [][lights_raw' # lights_raw =>
          /\ lights' = lights
          /\ lights_buffer' = lights_buffer
          /\ UNCHANGED <<added, frameVars, stateVars, cubeVars, drawVars, billboardVars>>
          /\ PackedAsSlots(lights_raw[1])'
          /\ lights_raw' = << map_raw(lights') >>]_vars

\* to_raw was called on a set of two lights, whose slots and buffer are as
\* they were created
C13_Witness ==
    /\ lights_raw # <<>>
    /\ \A i \in LightSlots : lights[i].occupied
    /\ lights[0].position # lights[1].position
    /\ lights_buffer = lights_raw[1]

\* C14: when update() has moved the light, the light's GPU buffer is
\* re-uploaded by a copy from a staging buffer that holds the light as it is
\* now, recorded outside any render pass and submitted before the stream
\* that holds the forward pass, so that the forward pass of every redraw
\* reads a light buffer equal to the CPU-side light
C14_LightBufferStagedBeforeForward ==
    /\ light_buffer = state_light
    /\ submissions # <<>> =>
          LET updated == submissions[1]
          IN /\ BeginsOf(updated, "forward") = {}
             /\ \A k \in DOMAIN updated : ~IsBegin(updated[k])
             /\ \E k \in DOMAIN updated :
                   /\ updated[k].op = "copy_buffer_to_buffer"
                   /\ updated[k].dst = <<"light_buffer", 0>>
                   /\ updated[k].src = [staging |-> state_light]
                   /\ updated[Len(updated)] = QueueSubmit
    /\ \A n \in DOMAIN submissions :
          BeginsOf(submissions[n], "forward") # {} => n > 1

\* a redraw has turned the light a quarter about the y axis and run to its
\* end: the buffer holds the turned light
C14_Witness ==
    /\ RedrawCompleted
    /\ state_light.position = Vector3(3, 9, -3)
    /\ light_buffer.position = Vector3(3, 9, -3)
    /\ BeginsOf(submissions[2], "forward") # {}

(***************************************************************************)
(* Properties of the six face views                                        *)
(***************************************************************************)
\* the view direction of a face matrix: look-at target minus eye
ViewDirection(m) ==
    <<m.center[1] - m.eye[1], m.center[2] - m.eye[2], m.center[3] - m.eye[3]>>
Dot(a, b) == a[1] * b[1] + a[2] * b[2] + a[3] * b[3]
Cross(a, b) == <<a[2] * b[3] - a[3] * b[2], a[3] * b[1] - a[1] * b[3],
                 a[1] * b[2] - a[2] * b[1]>>
AxisDirections == {<<1, 0, 0>>, <<-1, 0, 0>>, <<0, 1, 0>>, <<0, -1, 0>>, <<0, 0, 1>>,
                   <<0, 0, -1>>}

\* C15: create_light_proj_cube returns exactly six matrices, all with the
\* light position as eye; their six view directions are unit vectors,
\* pairwise distinct, and together exactly +X, -X, +Y, -Y, +Z, -Z
C15_SixAxisDirections ==
    cube_projections # <<>> =>
        /\ Len(cube_projections) = 6
        /\ \A k \in DOMAIN cube_projections :
              /\ cube_projections[k].eye = light_pos
              /\ Dot(ViewDirection(cube_projections[k]),
                     ViewDirection(cube_projections[k])) = 1
        /\ \A j \in DOMAIN cube_projections : \A k \in DOMAIN cube_projections :
              j # k => ViewDirection(cube_projections[j]) # ViewDirection(cube_projections[k])
        /\ {ViewDirection(cube_projections[k]) : k \in DOMAIN cube_projections}
              = AxisDirections

\* the cube of a light away from the origin has been computed
C15_Witness ==
    /\ light_pos = Vector3(-2, 1, 2)
    /\ Len(cube_projections) = 6
    /\ cube_projections[1].center = Vector3(-1, 1, 2)
    /\ cube_projections[6].center = Vector3(-2, 1, 3)

\* C16: face 0 looks toward +X with up +Y, face 1 toward -X with up +Y,
\* face 2 toward +Y with up +Z, face 3 toward -Y with up -Z, faces 4 and 5
\* are the two Z directions, both with up +Y; no up-vector is parallel to
\* the view direction of its face
C16_FaceOrderAndUps ==
    cube_projections # <<>> =>
        /\ ViewDirection(cube_projections[1]) = <<1, 0, 0>>
        /\ cube_projections[1].up = <<0, 1, 0>>
        /\ ViewDirection(cube_projections[2]) = <<-1, 0, 0>>
        /\ cube_projections[2].up = <<0, 1, 0>>
        /\ ViewDirection(cube_projections[3]) = <<0, 1, 0>>
        /\ cube_projections[3].up = <<0, 0, 1>>
        /\ ViewDirection(cube_projections[4]) = <<0, -1, 0>>
        /\ cube_projections[4].up = <<0, 0, -1>>
        /\ {ViewDirection(cube_projections[5]), ViewDirection(cube_projections[6])}
              = {<<0, 0, 1>>, <<0, 0, -1>>}
        /\ cube_projections[5].up = <<0, 1, 0>>
        /\ cube_projections[6].up = <<0, 1, 0>>
        /\ \A k \in DOMAIN cube_projections :
              Cross(cube_projections[k].up, ViewDirection(cube_projections[k]))
                 # <<0, 0, 0>>

\* the cube of a light has been computed: face 4 looks toward -Z, face 5
\* toward +Z
C16_Witness ==
    /\ light_pos = Vector3(1, -2, 0)
    /\ Len(cube_projections) = 6
    /\ ViewDirection(cube_projections[5]) = <<0, 0, -1>>
    /\ ViewDirection(cube_projections[6]) = <<0, 0, 1>>
    /\ cube_projections[4].up = <<0, 0, -1>>

(***************************************************************************)
(* Properties of draw_model_instanced                                      *)
(***************************************************************************)
\* positions of the indexed draws recorded by draw_model_instanced
DrawsRecorded == {j \in DOMAIN draw_calls : draw_calls[j].op = "draw_indexed"}
\* the position of the k-th draw, and where the calls of mesh k start
DrawOf(k) == CHOOSE j \in DrawsRecorded : Cardinality({d \in DrawsRecorded : d <= j}) = k
StartOf(k) == IF k = 1 THEN 1 ELSE DrawOf(k - 1) + 1
\* positions between StartOf(k) and the k-th draw binding descriptor set s
BindsOf(k, s) ==
    {j \in StartOf(k) .. DrawOf(k) :
        draw_calls[j].op = "set_bind_group" /\ draw_calls[j].index = s}
\* what set s has to be bound to for mesh k
GroupOf(k, s) ==
    CASE s = 0 -> <<"material", model_drawn.meshes[k].material>>
      [] s = 1 -> <<"uniforms", 0>>
      [] s = 2 -> <<"instances", 0>>
      [] s = 3 -> <<"lights", 0>>

\* C17: draw_model_instanced records as many indexed draws as the model has
\* meshes and nothing after the last one; the k-th draw is over
\* 0..num_elements of mesh k with the caller's instance range, and between
\* the previous draw and it sets 0..3 are each bound once, in that order, to
\* mesh k's material, the camera uniforms, the instance storage and the
\* light bundle
C17_FourBindsThenOneDrawPerMesh ==
    /\ Cardinality(DrawsRecorded) = Len(model_drawn.meshes)
    /\ draw_calls # <<>> => draw_calls[Len(draw_calls)].op = "draw_indexed"
    /\ \A k \in 1 .. Cardinality(DrawsRecorded) :
          /\ draw_calls[DrawOf(k)]
                = DrawIndexed(Range(0, <<"num_elements", model_drawn.meshes[k].id>>), 0,
                              range_drawn)
          /\ \A s \in 0 .. 3 :
                /\ Cardinality(BindsOf(k, s)) = 1
                /\ \A j \in BindsOf(k, s) :
                      /\ draw_calls[j].group = GroupOf(k, s)
                      /\ s < 3 => \A i \in BindsOf(k, s + 1) : j < i

\* a model of three meshes whose materials differ has been drawn with an
\* instance range that does not start at zero
C17_Witness ==
    /\ Len(model_drawn.meshes) = 3
    /\ model_drawn.meshes[1].material # model_drawn.meshes[2].material
    /\ range_drawn = Range(1, 3)
    /\ Cardinality(DrawsRecorded) = 3

(***************************************************************************)
(* Properties of the forward pass                                          *)
(***************************************************************************)
\* the redraw recorded a forward pass
ForwardRecorded ==
    \E n \in DOMAIN submissions : BeginsOf(submissions[n], "forward") # {}
\* positions in a stream of the passes that have view as a color target
ColorPassesOn(cs, view) ==
    {k \in DOMAIN cs :
        IsBegin(cs[k]) /\ \E a \in DOMAIN cs[k].color : cs[k].color[a].attachment = view}

\* C18 as stated: the forward pass is one color+depth pass whose own
\* attachments clear the color target to the background color and the depth
\* target to 1.0
C18_ForwardClearsColorAndDepth ==
    /\ RedrawCompleted => ForwardRecorded
    /\ \A n \in DOMAIN submissions :
          LET cs == submissions[n]
          IN \A fw \in BeginsOf(cs, "forward") :
                /\ Cardinality(BeginsOf(cs, "forward")) = 1
                /\ Len(cs[fw].color) = 1
                /\ cs[fw].color[1].load = LoadClear
                /\ cs[fw].color[1].clear_color = CLEAR_COLOR
                /\ cs[fw].depth.attachment # NoAttachment
                /\ cs[fw].depth.load = LoadClear
                /\ cs[fw].depth.clear_depth = DEPTH_FAR

\* C18: the forward pass is one color+depth pass that loads the color
\* target and clears the depth target to 1.0; the color target is cleared
\* to the background color by a separate pass without draws, recorded
\* earlier in the same stream, and no pass between the two has the color
\* target as an attachment
C18_ScreenClearedThenForwardLoads ==
    /\ RedrawCompleted => ForwardRecorded
    /\ \A n \in DOMAIN submissions :
          LET cs == submissions[n]
          IN \A fw \in BeginsOf(cs, "forward") :
                /\ Cardinality(BeginsOf(cs, "forward")) = 1
                /\ Len(cs[fw].color) = 1
                /\ cs[fw].color[1].attachment = FRAME
                /\ cs[fw].color[1].load = LoadLoad
                /\ cs[fw].depth.attachment = DEPTH_TEXTURE_VIEW
                /\ cs[fw].depth.load = LoadClear
                /\ cs[fw].depth.clear_depth = DEPTH_FAR
                /\ \E cl \in ColorPassesOn(cs, FRAME) :
                      /\ cl < fw
                      /\ cs[cl].color = << ColorAttachment(FRAME, LoadClear, CLEAR_COLOR) >>
                      /\ cs[cl].depth = NoDepthAttachment
                      /\ cs[cl + 1] = EndRenderPass(cs[cl].label)
                      /\ \A k \in ColorPassesOn(cs, FRAME) : ~(cl < k /\ k < fw)

\* a redraw has recorded the screen clear and a forward pass with draws
C18_Witness ==
    /\ RedrawCompleted
    /\ Len(submissions) = 2
    /\ \E fw \in BeginsOf(submissions[2], "forward") :
          /\ submissions[2][fw].color[1].load = LoadLoad
          /\ \E d \in fw .. Len(submissions[2]) : submissions[2][d].op = "draw_indexed"
    /\ BeginsOf(submissions[2], "clear the screen") # {}

(***************************************************************************)
(* Properties of Billboards                                                *)
(***************************************************************************)
\* the instances upload has written: buffer, byte offset and the billboard
\* the write was made for
WrittenInstances ==
    UNION {{<<b, o>> : o \in DOMAIN instance_buffers[b].data} : b \in DOMAIN instance_buffers}
BillboardOf(w) == billboards[w[2] \div SizeOfInstanceRaw]
Translation(p) == <<p[1], p[2], p[3], 1>>

\* C19: the fourth column of every billboard matrix that upload wrote is
\* (p.x, p.y, p.z, 1) for the position p of its billboard, whatever the
\* view matrix of that upload was, and every other view matrix gives the
\* same fourth column for that position
C19_TranslationIsPosition ==
    \A w \in WrittenInstances :
        /\ instance_buffers[w[1]].data[w[2]].model[4] = Translation(BillboardOf(w).position)
        /\ \A view \in ViewMats :
              billboard_transform(view, BillboardOf(w).position)[4]
                 = instance_buffers[w[1]].data[w[2]].model[4]

\* a billboard away from the origin has been uploaded under the camera that
\* is turned and translated
C19_Witness ==
    /\ view_mat = Matrix4New(0, 0, -1, 0, 0, 1, 0, 0, 1, 0, 0, 0, 2, -3, 5, 1)
    /\ \E w \in WrittenInstances :
          /\ BillboardOf(w).position = Vector3(4, -5, 6)
          /\ instance_buffers[w[1]].data[w[2]].model
                = Matrix4New(0, 0, 1, 0, 0, 1, 0, 0, -1, 0, 0, 0, 4, -5, 6, 1)

\* the billboards inserted with material m
BillboardsWith(m) == {i \in DOMAIN billboards : billboards[i].material = m}
\* positions of the draws in a recorded pass
DrawsIn(cs) == {j \in DOMAIN cs : cs[j].op = "draw_indexed"}
\* the pass cs holds one instanced draw per material of insts, each over the
\* instances 0..num_instances of its material and recorded right after the
\* bindings of that material and of its instance buffer
OneDrawPerMaterial(cs, insts) ==
    /\ Cardinality(DrawsIn(cs)) = Cardinality(DOMAIN insts)
    /\ \A m \in DOMAIN insts :
          \E j \in DrawsIn(cs) :
              /\ j > 2
              /\ cs[j - 2] = SetBindGroup(0, <<"material", m>>, <<>>)
              /\ cs[j - 1] = SetBindGroup(2, insts[m].instance_bind_group, <<>>)
              /\ cs[j].instances = Range(0, insts[m].num_instances)
              /\ \A i \in DrawsIn(cs) :
                    cs[i - 1].group = insts[m].instance_bind_group => i = j
\* the materials with a billboard are those with instance data; each has
\* its own buffer, no other buffer was ever created, and its num_instances
\* counts its billboards
C20_Batches ==
    /\ DOMAIN billboard_instances = {billboards[i].material : i \in DOMAIN billboards}
    /\ Cardinality(DOMAIN instance_buffers) = Cardinality(DOMAIN billboard_instances)
    /\ \A m \in DOMAIN billboard_instances :
          /\ billboard_instances[m].num_instances = Cardinality(BillboardsWith(m))
          /\ billboard_instances[m].instance_buffer \in DOMAIN instance_buffers
          /\ billboard_instances[m].instance_bind_group
                = <<"instances_bind_group", billboard_instances[m].instance_buffer>>
          /\ \A o \in DOMAIN billboard_instances :
                o # m => billboard_instances[o].instance_buffer
                            # billboard_instances[m].instance_buffer
\* a step keeps the buffer of every material that has one, and a render
\* records one draw per material
C20_Step ==
    /\ \A m \in DOMAIN billboard_instances :
          /\ m \in DOMAIN billboard_instances'
          /\ billboard_instances'[m].instance_buffer = billboard_instances[m].instance_buffer
    /\ pass_calls' # pass_calls => OneDrawPerMaterial(pass_calls', billboard_instances')

\* C20: after any sequence of inserts every material with a billboard owns
\* exactly one instance buffer, created on its first insert and kept by
\* every later step, its num_instances is the number of billboards inserted
\* with it, and a render records exactly one instanced draw per such
\* material, over the instances 0..num_instances
C20_OneBufferOneDrawPerMaterial == []C20_Batches /\ [][C20_Step]_vars

\* two billboards of one material and one of another have been inserted
\* and rendered in two draws
C20_Witness ==
    /\ next_id = 3
    /\ Cardinality(DOMAIN billboard_instances) = 2
    /\ \E m \in DOMAIN billboard_instances : billboard_instances[m].num_instances = 2
    /\ OneDrawPerMaterial(pass_calls, billboard_instances)
    /\ \E j \in DrawsIn(pass_calls) : pass_calls[j].instances = Range(0, 2)

\* C21: the instance counter of a material never exceeds MAX_BILLBOARDS: an
\* insert into a material that is at the limit stores nothing
C21_CapacityRespected ==
    \A m \in DOMAIN billboard_instances :
        /\ billboard_instances[m].num_instances <= MAX_BILLBOARDS
        /\ Cardinality(BillboardsWith(m)) <= MAX_BILLBOARDS

(***************************************************************************)
(* Properties of the frame acquisition                                     *)
(***************************************************************************)
\* C22 as stated: when the acquisition of the frame panics, no command of
\* that redraw has been recorded or submitted
C22_TimeoutSubmitsNothing ==
    panicked => submissions = <<>>

\* after the panic exactly one stream of the redraw has been submitted, the
\* one of update(): buffer copies only, no render pass
C22_OnlyUpdateSubmitted ==
    panicked =>
        /\ Len(submissions) = 1
        /\ Cardinality(SubmitsIn(submissions[1])) = 1
        /\ \A k \in DOMAIN submissions[1] :
              submissions[1][k].op \in {"copy_buffer_to_buffer", "submit"}
        /\ \E k \in DOMAIN submissions[1] : submissions[1][k].op = "copy_buffer_to_buffer"

\* C22: a timeout while acquiring the frame panics in render() before any
\* of its commands is recorded: no render pass of that redraw is recorded
\* or submitted, only the stream of update() with the staged uniform and
\* light copies, submitted before the acquisition; after the panic no event
\* is handled and no later frame is rendered
C22_TimeoutIsFatalAfterUpdate ==
    []C22_OnlyUpdateSubmitted /\ [][~panicked]_vars

\* a redraw has failed to acquire its frame after submitting update()'s
\* stream
C22_Witness ==
    /\ panicked
    /\ Len(submissions) = 1
    /\ light_buffer = state_light
    /\ control_flow = "Poll"

(***************************************************************************)
(* Properties of save_texture                                              *)
(***************************************************************************)
\* C23: the thread reads the mapped readback buffer only after the recorded
\* texture-to-buffer copy has been submitted and executed, so what it reads
\* and saves are the texels of the texture
C23_ReadAfterCopyExecuted ==
    /\ thread_pc \in {"read", "saved"} => thread_pixels = TexelsOf(save_args.texture)
    /\ thread_pc = "saved" => image_png.pixels = TexelsOf(save_args.texture)

\* the instance slot upload writes for billboard i, and the slots of the
\* buffer of material m that upload has written
SlotOf(i) == (i * SizeOfInstanceRaw) \div SizeOfInstanceRaw
WrittenSlots(m) ==
    {o \div SizeOfInstanceRaw :
        o \in DOMAIN instance_buffers[billboard_instances[m].instance_buffer].data}
\* upload has run since the last insert
AllUploaded ==
    \A i \in DOMAIN billboards : SlotOf(i) \in WrittenSlots(billboards[i].material)

\* C24: the slot upload writes for a billboard lies below the num_instances
\* of its material, and once upload has run every slot in 0..num_instances
\* of a material has been written for a billboard of that material
C24_EveryBillboardCovered ==
    /\ \A i \in DOMAIN billboards :
          SlotOf(i) < billboard_instances[billboards[i].material].num_instances
    /\ AllUploaded =>
          \A m \in DOMAIN billboard_instances :
              \A slot \in 0 .. billboard_instances[m].num_instances - 1 :
                  /\ slot \in WrittenSlots(m)
                  /\ slot \in DOMAIN billboards
                  /\ billboards[slot].material = m

\* entry (row r, column c) of a matrix kept as its four columns
Entry(m, r, c) == m[c][r]

\* C25: in every billboard matrix that upload wrote, entry (r, c) of the
\* upper-left 3x3 block is entry (c, r) of the view matrix of that upload,
\* and the fourth row is (0, 0, 0, 1)
C25_RotationTransposed ==
    \A w \in WrittenInstances :
        /\ \A r \in 1 .. 3 : \A c \in 1 .. 3 :
              Entry(instance_buffers[w[1]].data[w[2]].model, r, c) = Entry(view_mat, c, r)
        /\ \A c \in 1 .. 3 : Entry(instance_buffers[w[1]].data[w[2]].model, 4, c) = 0
        /\ Entry(instance_buffers[w[1]].data[w[2]].model, 4, 4) = 1

\* a billboard has been uploaded under the view matrix whose entries all
\* differ
C25_Witness ==
    /\ view_mat = Matrix4New(11, 12, 13, 14, 21, 22, 23, 24, 31, 32, 33, 34, 41, 42, 43, 44)
    /\ \E w \in WrittenInstances :
          /\ instance_buffers[w[1]].data[w[2]].model[1] = <<11, 21, 31, 0>>
          /\ instance_buffers[w[1]].data[w[2]].model[3] = <<13, 23, 33, 0>>

(***************************************************************************)
(* Properties of the shadow cubemap                                        *)
(***************************************************************************)
\* C26: the shadow texture has six array layers, the view it is sampled
\* through spans layers 0..5, and every layer a recorded copy_to_cubemap
\* copy writes lies in the view
C26_CubeViewSpansSixLayers ==
    /\ ShadowCubemapNew.texture.size.depth = NUM_FACES
    /\ ViewLayers(ShadowCubemapNew) = 0 .. NUM_FACES - 1
    /\ \A k \in Copies : calls[k].dst_origin.z \in ViewLayers(ShadowCubemapNew)

(***************************************************************************)
(* Properties of update_light                                              *)
(***************************************************************************)
\* the view direction of each face, by face index
FaceDirections ==
    << <<1, 0, 0>>, <<-1, 0, 0>>, <<0, 1, 0>>, <<0, -1, 0>>, <<0, 0, -1>>, <<0, 0, 1>> >>
\* a step of update_light: it alone records calls before the passes begin
IsUpdateLightStep == pc \in {"move", "update"} /\ calls' # calls
\* what such a step appends to the recorded calls
Appended == SubSeq(calls', Len(calls) + 1, Len(calls'))

\* C27: update_light(light_index, light) records exactly six writes and
\* nothing else; the write of face f goes to offset
\* light_index * 6 * alignment + f * alignment, inside the six entries of
\* that light, and carries the matrix looking from the light's position
\* along face f's direction together with the light's position
C27_UpdateLightWritesOwnSixEntries ==
    [][IsUpdateLightStep =>
          /\ SubSeq(calls', 1, Len(calls)) = calls
          /\ Len(Appended) = 6
          /\ \A f \in Faces :
                LET w == Appended[f + 1]
                IN /\ IsShadowWrite(w)
                   /\ w.offset = light_index * 6 * BIND_BUFFER_ALIGNMENT
                                 + f * BIND_BUFFER_ALIGNMENT
                   /\ w.offset \div (6 * BIND_BUFFER_ALIGNMENT) = light_index
                   /\ w.size = SizeOfShadowUniforms
                   /\ w.data.light_position = lights[light_index].position
                   /\ w.data.light_proj.eye = lights[light_index].position
                   /\ ViewDirection(w.data.light_proj) = FaceDirections[f + 1]]_vars

\* the six entries of the first light have been written and the second
\* light is next
C27_Witness ==
    /\ pc = "update"
    /\ light_index = 1
    /\ Cardinality(ShadowWrites) = 6
    /\ \A k \in ShadowWrites : calls[k].offset < 6 * BIND_BUFFER_ALIGNMENT

\* the sum of num_instances over the materials S
RECURSIVE SumInstances(_)
SumInstances(S) ==
    IF S = {} THEN 0
    ELSE LET m == CHOOSE x \in S : TRUE
         IN billboard_instances[m].num_instances + SumInstances(S \ {m})

\* C28: the ids insert returned are 0, 1, 2, ... in call order, the stored
\* billboards are those with these ids, next_id is their number, and the
\* num_instances of all materials add up to next_id
C28_IdsCountUp ==
    /\ \A k \in DOMAIN inserted : inserted[k] = k - 1
    /\ DOMAIN billboards = {inserted[k] : k \in DOMAIN inserted}
    /\ next_id = Len(inserted)
    /\ next_id = Cardinality(DOMAIN billboards)
    /\ SumInstances(DOMAIN billboard_instances) = next_id

\* three inserts over two materials have returned 0, 1 and 2
C28_Witness ==
    /\ inserted = <<0, 1, 2>>
    /\ Cardinality(DOMAIN billboard_instances) = 2
    /\ next_id = 3

(***************************************************************************)
(* Properties of the window event loop                                     *)
(***************************************************************************)
\* the cursor is hidden and grabbed
CursorCaptured == ~cursor_visible /\ cursor_grab
\* is_active is true exactly when the cursor is hidden and grabbed
C29_ActiveIffCaptured ==
    /\ is_active <=> CursorCaptured
    /\ is_active <=> ~cursor_visible
    /\ is_active <=> cursor_grab
\* what the steps of the Escape key and of the left mouse button do
C29_Step ==
    /\ (EvEscape(TRUE) /\ is_active) =>
          /\ ~is_active'
          /\ cursor_visible'
          /\ ~cursor_grab'
          /\ control_flow' = "Poll"
    /\ (EvEscape(TRUE) /\ ~is_active) =>
          /\ control_flow' = "Exit"
          /\ ~is_active'
    /\ EvMouseLeft =>
          /\ is_active'
          /\ CursorCaptured'
          /\ control_flow' = "Poll"

C30_Extents ==
    /\ sc_desc = state_size
    /\ depth_texture = sc_desc
\* a resize event leaves the requested size in the descriptor and in the
\* depth texture
C30_Step ==
    \A new_size \in Sizes :
        EvResized(new_size) => sc_desc' = new_size /\ depth_texture' = new_size

\* C30: after any sequence of resize events the swap-chain descriptor has
\* the width and height last requested and the depth texture of the forward
\* pass has the width and height of the descriptor, so the color and depth
\* attachments of the forward pass have equal extents
C30_DepthFollowsSwapChain == []C30_Extents /\ [][C30_Step]_vars

\* a resize after a redraw: the uniforms of the last frame still hold the
\* projection of the old size
C30_Witness ==
    /\ submissions # <<>>
    /\ uniform_buffer # update_view_proj(projection)
    /\ sc_desc = <<1024, 768>>
    /\ depth_texture = <<1024, 768>>

====
